---- MODULE Spec2Model ----
(***************************************************************************)
(* Verification model of nanofen/bittrade4: the multi-venue price          *)
(* collectors (unified_price_system.py, cex_collector.py,                  *)
(* nextdex_collector.py, dex_collector.py) and the arbitrage analyzer      *)
(* (arbitrage_analyzer.py).                                                *)
(***************************************************************************)
EXTENDS Integers, Sequences, FiniteSets, TLC

(***************************************************************************)
(* Bounds of the model.                                                    *)
(***************************************************************************)
MaxCand == 3
MaxTs == 2
MaxExec == 2
MaxTickers == 2
MaxPasses == 2
MaxRuns == 2
MaxWait == 2
MaxObs == 3
MaxMerge == 2
MaxRaw == 20
DecimalPrec == 3

(***************************************************************************)
(* State.                                                                  *)
(***************************************************************************)
\* filter_non_overlapping_trades: its argument and its locals.
VARIABLES arb_df, execution_time, sorted_arb, sched_idx, selected_trades,
          occupied_times, sched_pc

\* The collectors: self.tokens and one frame per adapter coroutine.
VARIABLES tokens, binance, bybit, hyperliquid, dydx

schedVars == <<arb_df, execution_time, sorted_arb, sched_idx, selected_trades,
               occupied_times, sched_pc>>

\* The on-chain reader: connected chains, per-chain permits, the pool cache,
\* one frame per fetch_uniswap_price task and the frame of get_dex_prices.
VARIABLES web3_instances, rpc_semaphores, pool_address_cache, dex, dex_call

\* get_all_prices: its position and its return value.
VARIABLES pass_pc, all_results

\* A collector runner: which class it is, self.running, the position of its
\* run loop, the collector's HTTP session, and the loop's locals.
VARIABLES runner, running, run_pc, session, collection_count, wait_left,
          late_passes

\* The analyses of arbitrage_analyzer.py over one token of the observation
\* log: which analysis runs, the frame read from the CSV file (a row's label
\* is its position), the window parameter, the row labels after the sort,
\* the position of the anchor loop, what the loop produced, and its position.
VARIABLES ana_fn, ana_df, time_window, token_data, ana_idx, ana_out, ana_pc

anaVars == <<ana_fn, ana_df, time_window, token_data, ana_idx, ana_out, ana_pc>>

\* The price arithmetic of fetch_uniswap_price on one slot0 value: the raw
\* sqrtPriceX96, the token's decimals, and final_price for either token
\* order once it is computed.
VARIABLES quote

\* The grouping step of get_all_prices applied to given adapter outputs: the
\* three lists, the position of the step, and the results.
VARIABLES merge

\* One walk of _get_pool_address_cached through the fee levels and what
\* fetch_uniswap_price does with its result.
VARIABLES resolve

\* SimpleMultiCollector (multi_collector.py): its stop flag and the three
\* collector tasks it runs in one process.
VARIABLES multi

\* The requests of get_cex_prices to Binance and Bybit and the permits of
\* the semaphores around them.
VARIABLES cex

\* The variables of the components that are modelled on their own.
aloneVars == <<resolve, multi, cex>>

adapterVars == <<tokens, binance, bybit, hyperliquid, dydx>>

dexVars == <<web3_instances, rpc_semaphores, pool_address_cache, dex,
             dex_call>>

passVars == <<pass_pc, all_results>>

runVars == <<runner, running, run_pc, session, collection_count, wait_left,
             late_passes>>

vars == <<schedVars, adapterVars, dexVars, passVars, runVars, anaVars, quote,
          merge, aloneVars>>

notSched == <<adapterVars, dexVars, passVars, runVars, anaVars, quote, merge,
              aloneVars>>

notRun == <<schedVars, adapterVars, dexVars, passVars, anaVars, quote, merge,
            aloneVars>>

notAdapters == <<schedVars, dexVars, passVars, runVars, anaVars, quote, merge,
                 aloneVars>>

notDex == <<schedVars, adapterVars, passVars, runVars, anaVars, quote, merge,
            aloneVars>>

notAlone == <<schedVars, adapterVars, dexVars, passVars, runVars, anaVars,
              quote, merge>>

(***************************************************************************)
(* Trade scheduler: arbitrage_analyzer.filter_non_overlapping_trades       *)
(***************************************************************************)
Min(a, b) == IF a <= b THEN a ELSE b

Max(a, b) == IF a >= b THEN a ELSE b

\* Values of the profit_per_trade column used by the model.
Profits == {30, 40, 50}

Timestamps == 0..MaxTs

\* One row of the opportunities DataFrame (the columns the scheduler reads).
TradeRows == [profit_per_trade : Profits, buy_timestamp : Timestamps,
              sell_timestamp : Timestamps]

\* Total order on rows, used only to enumerate each input frame once: the
\* sort below may return equal-profit rows in any order, so the order of the
\* rows in the input frame carries no further information.
RowKey(r) == (r.profit_per_trade * (MaxTs + 1) + r.buy_timestamp) * (MaxTs + 1)
             + r.sell_timestamp

Frames == UNION {{f \in [1..n -> TradeRows] :
                    \A i \in 1..(n - 1) : RowKey(f[i]) <= RowKey(f[i + 1])} :
                 n \in 0..MaxCand}

\* The bijections of 1..n onto itself.
Perms(n) == {p \in [1..n -> 1..n] : \A i, j \in 1..n : i # j => p[i] # p[j]}

SortDescendingMutAscending(df) ==
    {p \in Perms(Len(df)) :
       \A i \in 1..(Len(df) - 1) :
          df[p[i]].profit_per_trade <= df[p[i + 1]].profit_per_trade}

\* sort_values('profit_per_trade', ascending=False): the row labels of df in
\* an order of non-increasing profit.  The default sort kind is not stable,
\* so every order of equal-profit rows is a possible result.
SortDescending(df) ==
    {p \in Perms(Len(df)) :
       \A i \in 1..(Len(df) - 1) :
          df[p[i]].profit_per_trade >= df[p[i + 1]].profit_per_trade}

TradeStart(trade) == Min(trade.buy_timestamp, trade.sell_timestamp)

\* The variant that keeps a trade occupied for twice the execution time.
TradeEndMutPadded(trade, exec) ==
    Max(trade.buy_timestamp, trade.sell_timestamp) + 2 * exec

TradeEnd(trade, exec) == Max(trade.buy_timestamp, trade.sell_timestamp) + exec

IsOverlappingMutLastOnly(trade_start, trade_end, occupied) ==
    /\ Len(occupied) > 0
    /\ trade_start < occupied[Len(occupied)][2]
    /\ trade_end > occupied[Len(occupied)][1]

IsOverlappingMutClosed(trade_start, trade_end, occupied) ==
    \E k \in 1..Len(occupied) :
       trade_start <= occupied[k][2] /\ trade_end >= occupied[k][1]

\* any(trade_start < end_time and trade_end > start_time
\*     for start_time, end_time in occupied_times)
IsOverlapping(trade_start, trade_end, occupied) ==
    \E k \in 1..Len(occupied) :
       trade_start < occupied[k][2] /\ trade_end > occupied[k][1]

SchedInit ==
    /\ arb_df \in Frames
    /\ execution_time \in 1..MaxExec
    /\ sorted_arb = <<>>
    /\ sched_idx = 0
    /\ selected_trades = <<>>
    /\ occupied_times = <<>>
    /\ sched_pc = "start"

\* if len(arb_df) == 0: return arb_df
SchedReturnEmpty ==
    /\ sched_pc = "start"
    /\ Len(arb_df) = 0
    /\ sched_pc' = "done"
    /\ UNCHANGED <<arb_df, execution_time, sorted_arb, sched_idx,
                   selected_trades, occupied_times>>
    /\ UNCHANGED notSched

\* sorted_arb = arb_df.sort_values(...).reset_index(drop=True)
SchedSort ==
    /\ sched_pc = "start"
    /\ Len(arb_df) > 0
    /\ sorted_arb' \in SortDescending(arb_df)
    /\ sched_idx' = 1
    /\ sched_pc' = "loop"
    /\ UNCHANGED <<arb_df, execution_time, selected_trades, occupied_times>>
    /\ UNCHANGED notSched

\* One iteration of "for idx, trade in sorted_arb.iterrows()".
SchedVisit ==
    /\ sched_pc = "loop"
    /\ sched_idx <= Len(sorted_arb)
    /\ LET row == sorted_arb[sched_idx]
           trade == arb_df[row]
           trade_start == TradeStart(trade)
           trade_end == TradeEnd(trade, execution_time)
       IN  IF ~IsOverlapping(trade_start, trade_end, occupied_times)
           THEN /\ selected_trades' = Append(selected_trades, row)
                /\ occupied_times' =
                      Append(occupied_times, <<trade_start, trade_end>>)
           ELSE UNCHANGED <<selected_trades, occupied_times>>
    /\ sched_idx' = sched_idx + 1
    /\ UNCHANGED <<arb_df, execution_time, sorted_arb, sched_pc>>
    /\ UNCHANGED notSched

\* result_df = pd.DataFrame(selected_trades); return result_df
SchedReturn ==
    /\ sched_pc = "loop"
    /\ sched_idx > Len(sorted_arb)
    /\ sched_pc' = "done"
    /\ UNCHANGED <<arb_df, execution_time, sorted_arb, sched_idx,
                   selected_trades, occupied_times>>
    /\ UNCHANGED notSched

SchedIdle ==
    /\ arb_df = <<>>
    /\ execution_time = 0
    /\ sorted_arb = <<>>
    /\ sched_idx = 0
    /\ selected_trades = <<>>
    /\ occupied_times = <<>>
    /\ sched_pc = "idle"

(***************************************************************************)
(* Properties of the trade scheduler.                                      *)
(***************************************************************************)
\* The occupied interval of a row as the specification states it:
\* [min(buy_ts, sell_ts), max(buy_ts, sell_ts) + execution_duration).
OccStart(r) == IF r.buy_timestamp <= r.sell_timestamp
               THEN r.buy_timestamp ELSE r.sell_timestamp

OccEnd(r) == (IF r.buy_timestamp >= r.sell_timestamp
              THEN r.buy_timestamp ELSE r.sell_timestamp) + execution_time

Overlap(a, b) == OccStart(a) < OccEnd(b) /\ OccEnd(a) > OccStart(b)

SelectedRows == {selected_trades[i] : i \in 1..Len(selected_trades)}

\* C1: the trades selected by filter_non_overlapping_trades have pairwise
\* disjoint occupied intervals: no two selected trades A, B satisfy
\* startA < endB and endA > startB.
C1_PairwiseDisjoint ==
    \A i, j \in 1..Len(selected_trades) :
       i # j => ~Overlap(arb_df[selected_trades[i]], arb_df[selected_trades[j]])

\* A finished pass over three candidates that kept two and rejected one.
C1_Witness ==
    /\ sched_pc = "done"
    /\ Len(arb_df) = 3
    /\ Len(selected_trades) = 2

\* The rows visited so far are sorted_arb[1..sched_idx-1].
C2_GreedyState ==
    /\ sched_pc \in {"loop", "done"} /\ Len(arb_df) > 0 =>
          /\ {sorted_arb[k] : k \in 1..Len(sorted_arb)} = 1..Len(arb_df)
          /\ Len(sorted_arb) = Len(arb_df)
          /\ \A k \in 1..(Len(sorted_arb) - 1) :
                arb_df[sorted_arb[k]].profit_per_trade
                   >= arb_df[sorted_arb[k + 1]].profit_per_trade
    /\ \A k \in 1..(sched_idx - 1) :
          (sorted_arb[k] \in SelectedRows) <=>
             ~\E j \in 1..(k - 1) :
                 /\ sorted_arb[j] \in SelectedRows
                 /\ Overlap(arb_df[sorted_arb[j]], arb_df[sorted_arb[k]])
    /\ SelectedRows \subseteq {sorted_arb[k] : k \in 1..(sched_idx - 1)}
    /\ SelectedRows \subseteq 1..Len(arb_df)
    /\ Cardinality(SelectedRows) = Len(selected_trades)

C2_NoBacktrack ==
    /\ Len(selected_trades') >= Len(selected_trades)
    /\ SubSeq(selected_trades', 1, Len(selected_trades)) = selected_trades
    /\ \A k \in 1..(sched_idx - 1) :
          sorted_arb[k] \notin SelectedRows =>
             sorted_arb[k] \notin {selected_trades'[i] :
                                     i \in 1..Len(selected_trades')}

\* C2: candidates are visited in descending profit order; a visited candidate
\* is accepted iff its interval overlaps none of the intervals accepted before
\* it; a rejected candidate is never accepted later and an accepted one is
\* never removed; the output is a subset of the input.
C2_GreedyByProfit == []C2_GreedyState /\ [][C2_NoBacktrack]_vars

\* A finished pass in which a later, lower-profit candidate was accepted
\* after an earlier one had been rejected.
C2_Witness ==
    /\ sched_pc = "done"
    /\ Len(arb_df) = 3
    /\ Len(selected_trades) = 2
    /\ sorted_arb[2] \notin SelectedRows
    /\ sorted_arb[3] \in SelectedRows

\* C3: when one candidate has strictly the highest profit and its interval
\* overlaps the interval of every other candidate, the finished pass returns
\* exactly that candidate (e.g. profits 50, 40, 30 give the 50 alone, not
\* the non-overlapping pair worth 70).
C3_TopExcludesRest ==
    sched_pc = "done" =>
       \A h \in 1..Len(arb_df) :
          (\A o \in (1..Len(arb_df)) \ {h} :
              /\ arb_df[h].profit_per_trade > arb_df[o].profit_per_trade
              /\ Overlap(arb_df[h], arb_df[o]))
          => selected_trades = <<h>>

\* The 50/40/30 scenario: the 40 and the 30 are disjoint, the 50 overlaps
\* both, and the finished pass holds the 50 alone.
C3_Witness ==
    /\ sched_pc = "done"
    /\ Len(arb_df) = 3
    /\ \E h, m, l \in 1..3 :
          /\ arb_df[h].profit_per_trade = 50
          /\ arb_df[m].profit_per_trade = 40
          /\ arb_df[l].profit_per_trade = 30
          /\ Overlap(arb_df[h], arb_df[m])
          /\ Overlap(arb_df[h], arb_df[l])
          /\ ~Overlap(arb_df[m], arb_df[l])
          /\ selected_trades = <<h>>

\* C30: for every non-empty candidate set the output of the scheduler is
\* non-empty and contains a candidate of maximum profit, and it is
\* inclusion-maximal: every candidate that was not selected overlaps at least
\* one selected candidate whose profit is greater than or equal to its own.
C30_NonEmptyMaximal ==
    (sched_pc = "done" /\ Len(arb_df) > 0) =>
       /\ selected_trades # <<>>
       /\ \E s \in SelectedRows :
             \A r \in 1..Len(arb_df) :
                arb_df[s].profit_per_trade >= arb_df[r].profit_per_trade
       /\ \A r \in (1..Len(arb_df)) \ SelectedRows :
             \E s \in SelectedRows :
                /\ Overlap(arb_df[r], arb_df[s])
                /\ arb_df[s].profit_per_trade >= arb_df[r].profit_per_trade

\* A finished pass over three candidates of the same profit that rejected
\* one of them, which overlaps only one of the two selected.
C30_Witness ==
    /\ sched_pc = "done"
    /\ Len(arb_df) = 3
    /\ \A r \in 1..3 : arb_df[r].profit_per_trade = arb_df[1].profit_per_trade
    /\ \E r \in (1..3) \ SelectedRows :
          \E s, t \in SelectedRows :
             /\ s # t
             /\ Overlap(arb_df[r], arb_df[s])
             /\ ~Overlap(arb_df[r], arb_df[t])

(***************************************************************************)
(* Venue adapters of UnifiedPriceSystem (unified_price_system.py); the     *)
(* Hyperliquid and dYdX adapters of NextDEXCollector (nextdex_collector.py)*)
(* have the same code.                                                     *)
(***************************************************************************)
\* The first entries of self.tokens, in the order of the dict.
TokenList == <<"WETH", "WBTC", "LINK", "UNI", "MATIC", "BNB">>

\* A field that is absent from a JSON object.
Missing == "<missing>"

\* self.cex_symbols['binance'][token]
BinanceSymbol(token) ==
    CASE token = "WETH" -> "ETHUSDC"
      [] token = "WBTC" -> "BTCUSDC"
      [] token = "LINK" -> "LINKUSDC"
      [] token = "UNI" -> "UNIUSDC"
      [] token = "MATIC" -> "MATICUSDC"
      [] token = "BNB" -> "BNBUSDC"

\* self.cex_symbols['bybit'][token]
BybitSymbol(token) ==
    CASE token = "WETH" -> "ETHUSDT"
      [] token = "WBTC" -> "BTCUSDT"
      [] token = "LINK" -> "LINKUSDT"
      [] token = "UNI" -> "UNIUSDT"
      [] token = "MATIC" -> "MATICUSDT"
      [] token = "BNB" -> "BNBUSDT"

TokenSet(toks) == {toks[i] : i \in 1..Len(toks)}

\* Decimal(s): the strings the venues send in the model and their values,
\* written sign * 10^exp; any other string raises InvalidOperation.
DecimalStrings == {"100", "0", "-1", "1e-11", "1e11"}

Decimal(s) ==
    CASE s = "100" -> [sign |-> 1, exp |-> 2]
      [] s = "0" -> [sign |-> 0, exp |-> 0]
      [] s = "-1" -> [sign |-> -1, exp |-> 0]
      [] s = "1e-11" -> [sign |-> 1, exp |-> -11]
      [] s = "1e11" -> [sign |-> 1, exp |-> 11]

\* PriceData(source=..., chain=..., token=..., price=...); the timestamp and
\* the optional fields play no part in the properties checked here.
PriceData(source, chain, token, price) ==
    [source |-> source, chain |-> chain, token |-> token, price |-> price]

\* An HTTP exchange as the adapter sees it: a response with a status and a
\* decoded JSON body, a timeout (asyncio.TimeoutError), or any other error
\* raised by the transport or by response.json().
Response(kind, status, body) == [kind |-> kind, status |-> status, body |-> body]

Failures == {Response("http", 429, <<>>), Response("http", 500, <<>>),
             Response("timeout", 0, <<>>), Response("error", 0, <<>>)}

\* Sequences over S of length at most n.
SeqUpTo(S, n) == UNION {[1..k -> S] : k \in 0..n}

\* Those whose entries differ in the field that is the key of a JSON object.
DistinctKeys(bodies, key) ==
    {b \in bodies : \A i, j \in 1..Len(b) : i # j => b[i][key] # b[j][key]}

\* The optional result of a single fetch: <<>> is None, <<p>> is the
\* PriceData p.
Some(p) == <<p>>

Nothing == <<>>

\* A result that is either a list or an exception raised while building it.
Returned(list) == [raised |-> FALSE, list |-> list]

Raises == [raised |-> TRUE, list |-> <<>>]

(* ---------------- Binance ---------------- *)
max_retries == 3

IndividualLimit == 5

BinanceTickers == [symbol : {"ETHUSDC", "XRPUSDT", Missing},
                   price : {"100", "0", "abc"}]

BinanceBulkResponses ==
    {Response("http", 200, b) : b \in SeqUpTo(BinanceTickers, MaxTickers)}
       \cup Failures

\* symbol_to_token = {v: k for k, v in self.cex_symbols['binance'].items()}
BinanceSymbolToToken(symbol) ==
    CHOOSE t \in TokenSet(TokenList) : BinanceSymbol(t) = symbol

RECURSIVE BinanceTickerLoop(_, _, _)
\* "for ticker in all_data": ticker['symbol'] and ticker['price'] raise
\* KeyError when the key is absent, Decimal(...) raises on a malformed number.
BinanceTickerLoop(all_data, i, results) ==
    IF i > Len(all_data) THEN Returned(results)
    ELSE LET ticker == all_data[i]
         IN  IF ticker.symbol = Missing THEN Raises
             ELSE IF ticker.symbol
                        \in {BinanceSymbol(t) : t \in TokenSet(TokenList)}
             THEN IF ticker.price \notin DecimalStrings
                  THEN Raises
                  ELSE BinanceTickerLoop(all_data, i + 1,
                          Append(results,
                             PriceData("binance", "reference",
                                BinanceSymbolToToken(ticker.symbol),
                                Decimal(ticker.price))))
             ELSE BinanceTickerLoop(all_data, i + 1, results)

\* The HTTP status of an exchange, 0 when there was no response.
StatusOf(resp) == IF resp.kind = "http" THEN resp.status ELSE 0

\* One iteration of "for attempt in range(max_retries)": what the iteration
\* returns (if it returns) and how long it sleeps before the next one.
BinanceAttempt(resp, attempt) ==
    LET parsed == BinanceTickerLoop(resp.body, 1, <<>>)
        caught == [returns |-> FALSE, list |-> <<>>, status |-> StatusOf(resp),
                   sleep |-> IF attempt < max_retries - 1 THEN 1 ELSE 0]
    IN  IF resp.kind = "http"
        THEN IF resp.status = 200
             THEN IF parsed.raised THEN caught
                  ELSE [returns |-> TRUE, list |-> parsed.list,
                        status |-> 200, sleep |-> 0]
             ELSE IF resp.status = 429
             THEN [returns |-> FALSE, list |-> <<>>, status |-> 429,
                   sleep |-> 2 ^ attempt]
             ELSE [returns |-> FALSE, list |-> <<>>,
                   status |-> resp.status, sleep |-> 0]
        ELSE caught

\* What one bulk attempt can come to, for each value of attempt.
BinanceOutcomes ==
    [attempt \in 0..(max_retries - 1) |->
        {BinanceAttempt(resp, attempt) : resp \in BinanceBulkResponses}]

BinanceIdle ==
    [pc |-> "idle", attempt |-> 0, requests |-> 0, last_sleep |-> 0,
     n429 |-> 0, fell_back |-> FALSE, idx |-> 0, tried |-> <<>>,
     results |-> <<>>, ret |-> <<>>]

\* fetch_all_binance_prices is called.
BinanceCalled == [BinanceIdle EXCEPT !.pc = "bulk"]

\* One bulk attempt: the GET, the handling of its response and the sleep.
BinanceBulkAttempt ==
    /\ binance.pc = "bulk"
    /\ binance.attempt < max_retries
    /\ \E out \in BinanceOutcomes[binance.attempt] :
          binance' =
             IF out.returns
             THEN [BinanceIdle EXCEPT !.pc = "returned",
                                      !.requests = binance.requests + 1,
                                      !.ret = out.list]
             ELSE [binance EXCEPT !.attempt = @ + 1,
                                  !.requests = @ + 1,
                                  !.last_sleep = out.sleep,
                                  !.n429 = IF out.status = 429
                                           THEN @ + 1 ELSE 0]
    /\ UNCHANGED <<tokens, bybit, hyperliquid, dydx>>
    /\ UNCHANGED notAdapters

FallbackTokensMutAll(toks) == toks

\* list(self.tokens.keys())[:5]
FallbackTokens(toks) == SubSeq(toks, 1, IF Len(toks) < IndividualLimit
                                        THEN Len(toks) ELSE IndividualLimit)

\* The loop is exhausted: return await self._fetch_binance_individual()
BinanceFallback ==
    /\ binance.pc = "bulk"
    /\ binance.attempt = max_retries
    /\ binance' = [BinanceIdle EXCEPT !.pc = "individual",
                                     !.requests = binance.requests,
                                     !.fell_back = TRUE,
                                     !.idx = 1]
    /\ UNCHANGED <<tokens, bybit, hyperliquid, dydx>>
    /\ UNCHANGED notAdapters

BinanceSingleResponses ==
    {Response("http", 200, <<[price |-> p]>>) :
        p \in {"100", "0", "abc", Missing}} \cup Failures

\* fetch_binance_price(token_symbol): the observation or None; every
\* exception is caught inside.
FetchBinancePrice(token_symbol, resp, toks) ==
    IF token_symbol \notin TokenSet(toks) THEN Nothing
    ELSE IF resp.kind = "http" /\ resp.status = 200
              /\ resp.body[1].price \in DecimalStrings
         THEN Some(PriceData("binance", "reference", token_symbol,
                             Decimal(resp.body[1].price)))
         ELSE Nothing

\* One iteration of the loop of _fetch_binance_individual.
BinanceIndividual ==
    /\ binance.pc = "individual"
    /\ binance.idx <= Len(FallbackTokens(tokens))
    /\ LET token == FallbackTokens(tokens)[binance.idx]
       IN  \E price_data \in {FetchBinancePrice(token, resp, tokens) :
                                  resp \in BinanceSingleResponses} :
              binance' = [binance EXCEPT !.idx = @ + 1,
                                         !.tried = Append(@, token),
                                         !.results = @ \o price_data]
    /\ UNCHANGED <<tokens, bybit, hyperliquid, dydx>>
    /\ UNCHANGED notAdapters

\* return results
BinanceIndividualReturn ==
    /\ binance.pc = "individual"
    /\ binance.idx > Len(FallbackTokens(tokens))
    /\ binance' = [BinanceIdle EXCEPT !.pc = "returned",
                                     !.requests = binance.requests,
                                     !.fell_back = TRUE,
                                     !.tried = binance.tried,
                                     !.ret = binance.results]
    /\ UNCHANGED <<tokens, bybit, hyperliquid, dydx>>
    /\ UNCHANGED notAdapters

(* ---------------- Bybit ---------------- *)
\* The body of a 200 response of /v5/market/tickers for one symbol: retCode
\* and result.list (at most one ticker in the model).
BybitBodies(symbol) ==
    {[retCode |-> rc, list |-> l] :
        rc \in {0, 10001},
        l \in SeqUpTo([symbol : {symbol, "XRPUSDT"},
                       lastPrice : {"100", "-1", "abc", Missing}], 1)}

BybitResponses(symbol) ==
    {Response("http", 200, b) : b \in BybitBodies(symbol)} \cup Failures

\* fetch_single_bybit(symbol): the observation or None; every exception
\* (a missing key, a malformed number, a transport error) is caught inside.
FetchSingleBybit(symbol, resp, toks) ==
    IF /\ resp.kind = "http"
       /\ resp.status = 200
       /\ resp.body.retCode = 0
       /\ Len(resp.body.list) > 0
       /\ resp.body.list[1].symbol = symbol
       /\ symbol \in {BybitSymbol(t) : t \in TokenSet(toks)}
       /\ resp.body.list[1].lastPrice \in DecimalStrings
    THEN Some(PriceData("bybit", "reference",
                 CHOOSE t \in TokenSet(toks) : BybitSymbol(t) = symbol,
                 Decimal(resp.body.list[1].lastPrice)))
    ELSE Nothing

BybitIdle == [pc |-> "idle", results_raw |-> <<>>, ret |-> <<>>]

\* fetch_all_bybit_prices is called: one task per configured symbol.
BybitCalled(toks) ==
    [pc |-> "gather",
     results_raw |-> [i \in 1..Len(toks) |-> [done |-> FALSE, value |-> Nothing]],
     ret |-> <<>>]

\* One of the gathered tasks finishes.
BybitFetchSingle ==
    /\ bybit.pc = "gather"
    /\ \E i \in 1..Len(tokens) :
          /\ ~bybit.results_raw[i].done
          /\ \E value \in {FetchSingleBybit(BybitSymbol(tokens[i]), resp, tokens) :
                              resp \in BybitResponses(BybitSymbol(tokens[i]))} :
                bybit' = [bybit EXCEPT !.results_raw[i] =
                            [done |-> TRUE, value |-> value]]
    /\ UNCHANGED <<tokens, binance, hyperliquid, dydx>>
    /\ UNCHANGED notAdapters

RECURSIVE Flatten(_)
\* The concatenation of a sequence of lists.
Flatten(lists) ==
    IF Len(lists) = 0 THEN <<>> ELSE Head(lists) \o Flatten(Tail(lists))

\* The all-or-nothing variant: one absent result empties the list.
OnlyPriceDataMutAllOrNothing(results_raw) ==
    IF \E i \in 1..Len(results_raw) : results_raw[i].value = Nothing
    THEN <<>>
    ELSE Flatten([i \in 1..Len(results_raw) |-> results_raw[i].value])

\* "for result in results_raw: if isinstance(result, PriceData): ..."
OnlyPriceData(results_raw) ==
    Flatten([i \in 1..Len(results_raw) |-> results_raw[i].value])

\* asyncio.gather has every result: return the valid ones.
BybitReturn ==
    /\ bybit.pc = "gather"
    /\ \A i \in 1..Len(tokens) : bybit.results_raw[i].done
    /\ bybit' = [bybit EXCEPT !.pc = "returned",
                              !.ret = OnlyPriceData(bybit.results_raw)]
    /\ UNCHANGED <<tokens, binance, hyperliquid, dydx>>
    /\ UNCHANGED notAdapters

(* ---------------- Hyperliquid ---------------- *)
\* token_mappings of fetch_all_hyperliquid_prices (the entries the model uses).
HyperliquidMapped == {"ETH", "BTC"}

HyperliquidToken(hl_symbol) ==
    CASE hl_symbol = "ETH" -> "WETH"
      [] hl_symbol = "BTC" -> "WBTC"

\* The allMids object as the list of its items.
HyperliquidBodies ==
    DistinctKeys(SeqUpTo([symbol : {"ETH", "XRP"},
                          price : {"100", "1e11", "abc"}], MaxTickers),
                 "symbol")

HyperliquidResponses ==
    {Response("http", 200, b) : b \in HyperliquidBodies} \cup Failures

RECURSIVE HyperliquidItemLoop(_, _, _)
\* "for hl_symbol, price_str in data.items()"
HyperliquidItemLoop(data, i, results) ==
    IF i > Len(data) THEN Returned(results)
    ELSE IF data[i].symbol \in HyperliquidMapped
         THEN IF data[i].price \notin DecimalStrings THEN Raises
              ELSE HyperliquidItemLoop(data, i + 1,
                      Append(results,
                         PriceData("hyperliquid", "perpetual",
                            HyperliquidToken(data[i].symbol),
                            Decimal(data[i].price))))
         ELSE HyperliquidItemLoop(data, i + 1, results)

\* The whole of fetch_all_hyperliquid_prices for one response: the list it
\* returns and the time it sleeps.
HyperliquidCall(resp) ==
    LET parsed == HyperliquidItemLoop(resp.body, 1, <<>>)
    IN  IF resp.kind = "http" /\ resp.status = 200 /\ ~parsed.raised
        THEN [list |-> parsed.list, status |-> 200, sleep |-> 0]
        ELSE IF resp.kind = "http" /\ resp.status = 429
        THEN [list |-> <<>>, status |-> 429, sleep |-> 1]
        ELSE [list |-> <<>>, status |-> StatusOf(resp), sleep |-> 0]

\* What a call of fetch_all_hyperliquid_prices can come to.
HyperliquidOutcomes == {HyperliquidCall(resp) : resp \in HyperliquidResponses}

BulkIdle ==
    [pc |-> "idle", requests |-> 0, last_status |-> 0, last_sleep |-> 0,
     ret |-> <<>>]

BulkCalled == [BulkIdle EXCEPT !.pc = "request"]

\* fetch_all_hyperliquid_prices: the POST, its handling, the return.
HyperliquidFetch ==
    /\ hyperliquid.pc = "request"
    /\ \E out \in HyperliquidOutcomes :
          hyperliquid' = [pc |-> "returned",
                          requests |-> hyperliquid.requests + 1,
                          last_status |-> out.status,
                          last_sleep |-> out.sleep,
                          ret |-> out.list]
    /\ UNCHANGED <<tokens, binance, bybit, dydx>>
    /\ UNCHANGED notAdapters

(* ---------------- dYdX v4 ---------------- *)
DydxMapped == {"ETH-USD", "BTC-USD"}

DydxToken(market_id) ==
    CASE market_id = "ETH-USD" -> "WETH"
      [] market_id = "BTC-USD" -> "WBTC"

\* The perpetualMarkets object: whether it has 'markets', and the items of it.
DydxBodies ==
    {[has_markets |-> h, markets |-> m] :
        h \in BOOLEAN,
        m \in DistinctKeys(
                 SeqUpTo([market_id : {"ETH-USD", "XRP-USD"},
                          oraclePrice : {"100", "1e-11", "abc", Missing}],
                         MaxTickers),
                 "market_id")}

DydxResponses == {Response("http", 200, b) : b \in DydxBodies} \cup Failures

RECURSIVE DydxMarketLoop(_, _, _)
\* "for market_id, market_data in data['markets'].items()"
DydxMarketLoop(markets, i, results) ==
    IF i > Len(markets) THEN Returned(results)
    ELSE IF markets[i].market_id \in DydxMapped
              /\ markets[i].oraclePrice # Missing
         THEN IF markets[i].oraclePrice \notin DecimalStrings THEN Raises
              ELSE DydxMarketLoop(markets, i + 1,
                      Append(results,
                         PriceData("dydx_v4", "perpetual",
                            DydxToken(markets[i].market_id),
                            Decimal(markets[i].oraclePrice))))
         ELSE DydxMarketLoop(markets, i + 1, results)

\* The whole of fetch_all_dydx_prices for one response.
DydxCall(resp) ==
    LET parsed == IF resp.body.has_markets
                  THEN DydxMarketLoop(resp.body.markets, 1, <<>>)
                  ELSE Returned(<<>>)
    IN  IF resp.kind = "http" /\ resp.status = 200
        THEN IF parsed.raised THEN [list |-> <<>>, status |-> 200, sleep |-> 0]
             ELSE [list |-> parsed.list, status |-> 200, sleep |-> 0]
        ELSE IF resp.kind = "http" /\ resp.status = 429
        THEN [list |-> <<>>, status |-> 429, sleep |-> 1]
        ELSE [list |-> <<>>, status |-> StatusOf(resp), sleep |-> 0]

\* What a call of fetch_all_dydx_prices can come to.
DydxOutcomes == {DydxCall(resp) : resp \in DydxResponses}

\* fetch_all_dydx_prices: the GET, its handling, the return.
DydxFetch ==
    /\ dydx.pc = "request"
    /\ \E out \in DydxOutcomes :
          dydx' = [pc |-> "returned",
                   requests |-> dydx.requests + 1,
                   last_status |-> out.status,
                   last_sleep |-> out.sleep,
                   ret |-> out.list]
    /\ UNCHANGED <<tokens, binance, bybit, hyperliquid>>
    /\ UNCHANGED notAdapters

\* No adapter coroutine is running.
AdaptersQuiet ==
    /\ binance.pc = "idle" /\ bybit.pc = "idle"
    /\ hyperliquid.pc = "idle" /\ dydx.pc = "idle"

\* A caller awaits fetch_all_binance_prices() on its own.
CallBinance ==
    /\ pass_pc = "idle" /\ AdaptersQuiet
    /\ binance' = BinanceCalled
    /\ UNCHANGED <<tokens, bybit, hyperliquid, dydx>>
    /\ UNCHANGED notAdapters

\* A caller awaits fetch_all_bybit_prices() on its own.
CallBybit ==
    /\ pass_pc = "idle" /\ AdaptersQuiet
    /\ bybit' = BybitCalled(tokens)
    /\ UNCHANGED <<tokens, binance, hyperliquid, dydx>>
    /\ UNCHANGED notAdapters

\* A caller awaits fetch_all_hyperliquid_prices() on its own.
CallHyperliquid ==
    /\ pass_pc = "idle" /\ AdaptersQuiet
    /\ hyperliquid' = BulkCalled
    /\ UNCHANGED <<tokens, binance, bybit, dydx>>
    /\ UNCHANGED notAdapters

\* A caller awaits fetch_all_dydx_prices() on its own.
CallDydx ==
    /\ pass_pc = "idle" /\ AdaptersQuiet
    /\ dydx' = BulkCalled
    /\ UNCHANGED <<tokens, binance, bybit, hyperliquid>>
    /\ UNCHANGED notAdapters

AdapterIdle ==
    /\ tokens = <<>>
    /\ binance = BinanceIdle
    /\ bybit = BybitIdle
    /\ hyperliquid = BulkIdle
    /\ dydx = BulkIdle

\* self.tokens is a non-empty prefix of the configured list.
AdapterInit ==
    /\ tokens \in {SubSeq(TokenList, 1, n) : n \in 1..Len(TokenList)}
    /\ binance = BinanceIdle
    /\ bybit = BybitIdle
    /\ hyperliquid = BulkIdle
    /\ dydx = BulkIdle

(***************************************************************************)
(* On-chain reader: UnifiedPriceSystem.fetch_uniswap_price,                *)
(* _get_pool_address_cached, _determine_token_order and get_dex_prices     *)
(* (unified_price_system.py); DEXCollector (dex_collector.py) has the same *)
(* code.                                                                   *)
(***************************************************************************)
\* The first entries of self.chains, in the order of the dict.
ChainList == <<"ethereum", "arbitrum", "base">>

ChainSet == {ChainList[i] : i \in 1..Len(ChainList)}

\* self.chains[chain].tokens.keys(), among the tokens of TokenList.
ChainTokens(chain) ==
    CASE chain = "ethereum" -> {"WETH", "WBTC", "LINK", "UNI", "MATIC", "BNB"}
      [] chain = "arbitrum" -> {"WETH", "WBTC", "LINK", "UNI", "MATIC"}
      [] chain = "base" -> {"WETH", "WBTC", "LINK", "UNI"}

\* The leading byte of self.chains[chain].usdc_address.
UsdcAddress(chain) ==
    CASE chain = "ethereum" -> 160
      [] chain = "arbitrum" -> 175
      [] chain = "base" -> 131

\* The leading byte of self.chains[chain].tokens[token]; the configured
\* addresses already differ from the chain's USDC address in that byte.
TokenAddress(chain, token) ==
    CASE chain = "ethereum" ->
           (CASE token = "WETH" -> 192 [] token = "WBTC" -> 34
              [] token = "LINK" -> 81 [] token = "UNI" -> 31
              [] token = "MATIC" -> 125 [] token = "BNB" -> 184)
      [] chain = "arbitrum" ->
           (CASE token = "WETH" -> 130 [] token = "WBTC" -> 47
              [] token = "LINK" -> 249 [] token = "UNI" -> 250
              [] token = "MATIC" -> 86)
      [] chain = "base" ->
           (CASE token = "WETH" -> 66 [] token = "WBTC" -> 5
              [] token = "LINK" -> 136 [] token = "UNI" -> 211)

\* self.tokens[token].decimals
TokenDecimals(token) == IF token = "WBTC" THEN 8 ELSE 18

usdc_decimals == 6

\* The permits of the semaphore that initialize() creates for a chain.
SemaphoreCap(chain) ==
    IF chain = "base" THEN 1 ELSE IF chain = "ethereum" THEN 2 ELSE 3

\* _determine_token_order: token_is_token0
DetermineTokenOrder(token_address, usdc_address) == token_address < usdc_address

\* The variant that tries the fee levels in increasing order.
fee_levelsMutAscending == <<100, 500, 3000, 10000>>

\* fee_levels = [3000, 500, 10000, 100]
fee_levels == <<3000, 500, 10000, 100>>

\* What the factory answers to getPool at each fee level during one
\* resolution: the zero address, a pool, or a failed call.
FactoryAnswers == [1..Len(fee_levels) -> {"zero", "pool", "raise"}]

\* The address of the pool of (chain, token, fee): fixed by the factory.
PoolAddress(chain, token, fee) == <<chain, token, fee>>

\* The variant that reports a failed resolution as a pool with the null
\* address.
GetPoolAddressMutNullPool(chain, token, answer) ==
    LET hits == {i \in 1..Len(fee_levels) : answer[i] # "zero"}
        first == CHOOSE i \in hits : \A j \in hits : i <= j
    IN  IF hits = {} \/ answer[first] = "raise"
        THEN [found |-> TRUE, pool_address |-> <<>>, pool_fee |-> 0]
        ELSE [found |-> TRUE,
              pool_address |-> PoolAddress(chain, token, fee_levels[first]),
              pool_fee |-> fee_levels[first]]

\* _get_pool_address_cached on a cache miss: the first fee level, in the
\* order of fee_levels, whose pool exists; (None, None) if there is none or
\* if a call raises before one is found.
GetPoolAddress(chain, token, answer) ==
    LET hits == {i \in 1..Len(fee_levels) : answer[i] # "zero"}
        first == CHOOSE i \in hits : \A j \in hits : i <= j
    IN  IF hits = {} \/ answer[first] = "raise"
        THEN [found |-> FALSE, pool_address |-> <<>>, pool_fee |-> 0]
        ELSE [found |-> TRUE,
              pool_address |-> PoolAddress(chain, token, fee_levels[first]),
              pool_fee |-> fee_levels[first]]

\* What a resolution of the pool of each key can come to.
PoolResults ==
    [k \in ChainSet \X TokenSet(TokenList) |->
        {GetPoolAddress(k[1], k[2], answer) : answer \in FactoryAnswers}]

\* The exponents h of the pool prices of the model: sqrtPriceX96 is
\* 2^96 * 10^h, so that sqrt_price_decimal^2 is 10^(2h).
HalfExps == {-12, -1, 5, 12}

\* What slot0().call answers: a price, a zero price, or a failed call.
Slot0Answers ==
    {[kind |-> "ok", zero |-> FALSE, half_exp |-> h] : h \in HalfExps}
       \cup {[kind |-> "ok", zero |-> TRUE, half_exp |-> 0],
             [kind |-> "error", zero |-> FALSE, half_exp |-> 0]}

\* final_price of fetch_uniswap_price, as sign * 10^exp; raised is the
\* DivisionByZero of Decimal(1) / price.
FinalPrice(slot0, token_is_token0, token_decimals) ==
    IF slot0.zero
    THEN IF token_is_token0
         THEN [raised |-> FALSE, price |-> [sign |-> 0, exp |-> 0]]
         ELSE [raised |-> TRUE, price |-> [sign |-> 0, exp |-> 0]]
    ELSE [raised |-> FALSE,
          price |-> [sign |-> 1,
                     exp |-> (IF token_is_token0 THEN 2 * slot0.half_exp
                              ELSE 0 - 2 * slot0.half_exp)
                             + (token_decimals - usdc_decimals)]]

\* The filter with its upper bound only.
PriceIsAbnormalMutUpperOnly(final_price) == final_price.exp > 10

\* "final_price > Decimal(10**10) or final_price < Decimal(10**-10)" for a
\* price sign * 10^exp: 10**-10 is a float, and Decimal of it is slightly
\* above 10^-10.
PriceIsAbnormal(final_price) ==
    \/ final_price.sign <= 0
    \/ final_price.exp > 10
    \/ final_price.exp <= -10

\* The part of fetch_uniswap_price after slot0: the observation or None.
UniswapPrice(chain, token, slot0, pool_info) ==
    LET fp == FinalPrice(slot0, pool_info.token_is_token0, TokenDecimals(token))
    IN  IF slot0.kind = "error" \/ fp.raised \/ PriceIsAbnormal(fp.price)
        THEN Nothing
        ELSE Some(PriceData("uniswap_v3", chain, token, fp.price))

\* The result of an operation of the decimal module, coef * 10^exp, rounded
\* to the precision of the context with ROUND_HALF_EVEN.  The module works
\* with 28 significant digits; the model works with DecimalPrec.
DecimalRound(coef, exp) ==
    LET digits == CHOOSE n \in 1..10 : coef < 10 ^ n /\ (n = 1 \/ coef >= 10 ^ (n - 1))
        shift == digits - DecimalPrec
        q == coef \div (10 ^ shift)
        r == coef % (10 ^ shift)
        up == 2 * r > 10 ^ shift \/ (2 * r = 10 ^ shift /\ q % 2 = 1)
    IN  IF digits <= DecimalPrec THEN [coef |-> coef, exp |-> exp]
        ELSE IF up /\ q + 1 = 10 ^ DecimalPrec
        THEN [coef |-> 10 ^ (DecimalPrec - 1), exp |-> exp + shift + 1]
        ELSE [coef |-> IF up THEN q + 1 ELSE q, exp |-> exp + shift]

\* The variant that scales the raw ratio for either token order and never
\* takes its reciprocal.
FinalPriceDecimalMutNoReciprocal(sqrt_price_x96, token_is_token0, token_decimals) ==
    LET sqrt_price_decimal ==
           DecimalRound(sqrt_price_x96.mantissa * (5 ^ sqrt_price_x96.shift),
                        0 - sqrt_price_x96.shift)
        price == DecimalRound(sqrt_price_decimal.coef * sqrt_price_decimal.coef,
                              2 * sqrt_price_decimal.exp)
    IN  [coef |-> price.coef,
         exp |-> price.exp + (token_decimals - usdc_decimals)]

\* final_price of fetch_uniswap_price in decimal arithmetic, for the raw
\* value sqrtPriceX96 = mantissa * 2^(96 - shift): Decimal(raw) /
\* Decimal(Q96) is mantissa * 5^shift / 10^shift; Decimal(1) / price is the
\* quotient to one digit more than the precision and a sticky digit, rounded;
\* multiplying by Decimal(10) ** (token_decimals - usdc_decimals) is exact.
FinalPriceDecimal(sqrt_price_x96, token_is_token0, token_decimals) ==
    LET sqrt_price_decimal ==
           DecimalRound(sqrt_price_x96.mantissa * (5 ^ sqrt_price_x96.shift),
                        0 - sqrt_price_x96.shift)
        price == DecimalRound(sqrt_price_decimal.coef * sqrt_price_decimal.coef,
                              2 * sqrt_price_decimal.exp)
        k == DecimalPrec + (CHOOSE n \in 1..10 : price.coef < 10 ^ n
                                 /\ (n = 1 \/ price.coef >= 10 ^ (n - 1)))
        quotient == (10 ^ k) \div price.coef
        sticky == IF (10 ^ k) % price.coef = 0 THEN 0 ELSE 1
        reciprocal == DecimalRound(quotient * 10 + sticky,
                                   0 - k - 1 - price.exp)
        scaled == IF token_is_token0 THEN price ELSE reciprocal
    IN  [coef |-> scaled.coef,
         exp |-> scaled.exp + (token_decimals - usdc_decimals)]

QuoteIdle == quote = <<>>

\* slot0 answered sqrt_price_x96 and final_price is computed, for either
\* value of token_is_token0.
QuotePrice ==
    /\ quote # <<>>
    /\ \E token_is_token0 \in BOOLEAN :
          /\ quote.final_price[token_is_token0] = Nothing
          /\ quote' = [quote EXCEPT !.final_price[token_is_token0] =
                         Some(FinalPriceDecimal(quote.sqrt_price_x96,
                                                token_is_token0,
                                                quote.token_decimals))]
    /\ UNCHANGED <<schedVars, adapterVars, dexVars, passVars, runVars, anaVars,
                   merge, aloneVars>>

\* The keys "chain_token" of the tasks and of the pool cache.
DexKeys(toks) == ChainSet \X TokenSet(toks)

TaskIdle == [pc |-> "idle", ret |-> Nothing]

\* The tasks get_dex_prices creates, "for chain_name ... for token_symbol",
\* each after its first run: a task returns None at once for a chain that
\* is not connected or a token the chain does not list, and otherwise
\* reaches "async with self.rpc_semaphores[chain_name]".
SpawnedTasks(toks, w3) ==
    [k \in DexKeys(toks) |->
        IF k[1] \notin w3 \/ k[2] \notin ChainTokens(k[1])
        THEN [pc |-> "done", ret |-> Nothing]
        ELSE [pc |-> "start", ret |-> Nothing]]

\* dex_tasks in the order of their creation.
TaskOrder(toks) ==
    [n \in 1..(Len(ChainList) * Len(toks)) |->
        <<ChainList[((n - 1) \div Len(toks)) + 1],
          toks[((n - 1) % Len(toks)) + 1]>>]

DexCallIdle == [pc |-> "idle", ret |-> <<>>, passes |-> 0]

\* "if cache_key not in self.pool_address_cache" with a test that always
\* succeeds.
CacheMissMutAlways(cache, key) == TRUE

\* "if cache_key not in self.pool_address_cache"
CacheMiss(cache, key) == cache[key] = <<>>

\* asyncio.Semaphore.locked() with a test that never blocks.
SemaphoreLockedMutNever(semaphores, chain) == FALSE

\* asyncio.Semaphore.locked(): no permit is left, acquire() has to wait.
SemaphoreLocked(semaphores, chain) == semaphores[chain] = 0

\* "async with self.rpc_semaphores[chain_name]": a permit is taken.
DexAcquire ==
    \E k \in DOMAIN dex :
       /\ dex[k].pc = "start"
       /\ ~SemaphoreLocked(rpc_semaphores, k[1])
       /\ rpc_semaphores' = [rpc_semaphores EXCEPT ![k[1]] = @ - 1]
       /\ dex' = [dex EXCEPT ![k].pc = "sleep"]
       /\ UNCHANGED <<web3_instances, pool_address_cache, dex_call>>
       /\ UNCHANGED notDex

\* After the sleep: the cache is consulted, the pool is resolved and cached
\* on a miss, and slot0 is requested; the task returns None (and gives its
\* permit back) when no pool is found.
DexResolve ==
    \E k \in DOMAIN dex :
       /\ dex[k].pc = "sleep"
       /\ IF CacheMiss(pool_address_cache, k)
          THEN \E pool_result \in PoolResults[k] :
                      IF ~pool_result.found
                      THEN /\ dex' = [dex EXCEPT ![k] =
                                        [pc |-> "done", ret |-> Nothing]]
                           /\ rpc_semaphores' =
                                 [rpc_semaphores EXCEPT ![k[1]] = @ + 1]
                           /\ UNCHANGED pool_address_cache
                      ELSE /\ pool_address_cache' =
                                 [pool_address_cache EXCEPT ![k] =
                                    <<[pool_address |-> pool_result.pool_address,
                                       pool_fee |-> pool_result.pool_fee,
                                       token_is_token0 |->
                                          DetermineTokenOrder(
                                             TokenAddress(k[1], k[2]),
                                             UsdcAddress(k[1]))]>>]
                           /\ dex' = [dex EXCEPT ![k].pc = "slot0"]
                           /\ UNCHANGED rpc_semaphores
          ELSE /\ dex' = [dex EXCEPT ![k].pc = "slot0"]
               /\ UNCHANGED <<pool_address_cache, rpc_semaphores>>
       /\ UNCHANGED <<web3_instances, dex_call>>
       /\ UNCHANGED notDex

\* slot0 has answered (or failed): the price is computed and filtered, the
\* task returns and gives its permit back.
DexPrice ==
    \E k \in DOMAIN dex :
       /\ dex[k].pc = "slot0"
       /\ \E ret \in {UniswapPrice(k[1], k[2], slot0, pool_address_cache[k][1]) :
                          slot0 \in Slot0Answers} :
             dex' = [dex EXCEPT ![k] = [pc |-> "done", ret |-> ret]]
       /\ rpc_semaphores' = [rpc_semaphores EXCEPT ![k[1]] = @ + 1]
       /\ UNCHANGED <<web3_instances, pool_address_cache, dex_call>>
       /\ UNCHANGED notDex

\* "for result in dex_results: if isinstance(result, PriceData): ..."
DexPrices(tasks, toks) ==
    Flatten([n \in 1..Len(TaskOrder(toks)) |-> tasks[TaskOrder(toks)[n]].ret])

\* Every task of the gather is done.
DexAllDone == \A k \in DOMAIN dex : dex[k].pc \in {"idle", "done"}

\* get_dex_prices returns.
DexReturn ==
    /\ dex_call.pc = "gather"
    /\ DexAllDone
    /\ dex_call' = [dex_call EXCEPT !.pc = "returned",
                                    !.ret = DexPrices(dex, tokens)]
    /\ UNCHANGED <<web3_instances, rpc_semaphores, pool_address_cache, dex>>
    /\ UNCHANGED notDex

\* A caller awaits get_dex_prices() on its own, one pass after another.
CallDex ==
    /\ pass_pc = "idle"
    /\ dex_call.pc \in {"idle", "returned"}
    /\ dex_call.passes < MaxPasses
    /\ dex_call' = [pc |-> "gather", ret |-> <<>>,
                    passes |-> dex_call.passes + 1]
    /\ dex' = SpawnedTasks(tokens, web3_instances)
    /\ UNCHANGED <<web3_instances, rpc_semaphores, pool_address_cache>>
    /\ UNCHANGED notDex

\* The permits and the cache after initialize() connected the chains w3.
DexReady(w3, toks) ==
    /\ web3_instances = w3
    /\ rpc_semaphores = [c \in w3 |-> SemaphoreCap(c)]
    /\ pool_address_cache = [k \in DexKeys(toks) |-> <<>>]
    /\ dex = [k \in DexKeys(toks) |-> TaskIdle]
    /\ dex_call = DexCallIdle

DexIdle == DexReady({}, <<>>)

(***************************************************************************)
(* Pool resolution step by step: the loop "for fee in fee_levels" of       *)
(* _get_pool_address_cached and the use fetch_uniswap_price makes of its   *)
(* result (the cache entry, the fee of the bid and ask prices).            *)
(***************************************************************************)
NoPool == [found |-> FALSE, pool_address |-> <<>>, pool_fee |-> 0]

\* fetch_uniswap_price finds no entry for its key and calls
\* _get_pool_address_cached; the factory will answer as answer says.
ResolveInit ==
    resolve \in [chain : {"ethereum", "base"},
                 token : {"WETH"},
                 answer : FactoryAnswers,
                 pc : {"loop"},
                 tier : {1},
                 queried : {<<>>},
                 pool_result : {NoPool},
                 cache_entry : {<<>>},
                 pool_fee_decimal : {0}]

\* One iteration of "for fee in fee_levels": getPool(token, usdc, fee) is
\* called; a failed call is caught and returns (None, None), an address
\* other than the zero address returns it with fee.
ResolveQuery ==
    /\ resolve # <<>>
    /\ resolve.pc = "loop"
    /\ resolve.tier <= Len(fee_levels)
    /\ LET fee == fee_levels[resolve.tier]
           pool_address == resolve.answer[resolve.tier]
           asked == [resolve EXCEPT !.queried = Append(@, fee)]
       IN  resolve' =
              IF pool_address = "raise"
              THEN [asked EXCEPT !.pc = "returned", !.pool_result = NoPool]
              ELSE IF pool_address # "zero"
              THEN [asked EXCEPT
                       !.pc = "returned",
                       !.pool_result =
                          [found |-> TRUE,
                           pool_address |->
                              PoolAddress(resolve.chain, resolve.token, fee),
                           pool_fee |-> fee]]
              ELSE [asked EXCEPT !.tier = @ + 1]
    /\ UNCHANGED <<multi, cex>>
    /\ UNCHANGED notAlone

\* The loop ends without a pool: "return None, None".
ResolveExhausted ==
    /\ resolve # <<>>
    /\ resolve.pc = "loop"
    /\ resolve.tier > Len(fee_levels)
    /\ resolve' = [resolve EXCEPT !.pc = "returned", !.pool_result = NoPool]
    /\ UNCHANGED <<multi, cex>>
    /\ UNCHANGED notAlone

\* "if not pool_result or not pool_result[0]: return None"
ResolveAbsent ==
    /\ resolve # <<>>
    /\ resolve.pc = "returned"
    /\ ~resolve.pool_result.found
    /\ resolve' = [resolve EXCEPT !.pc = "absent"]
    /\ UNCHANGED <<multi, cex>>
    /\ UNCHANGED notAlone

\* self.pool_address_cache[cache_key] = {'pool_address': ..., 'pool_fee':
\* ..., 'token_is_token0': ...}
ResolveCache ==
    /\ resolve # <<>>
    /\ resolve.pc = "returned"
    /\ resolve.pool_result.found
    /\ resolve' =
          [resolve EXCEPT
              !.pc = "cached",
              !.cache_entry =
                 <<[pool_address |-> resolve.pool_result.pool_address,
                    pool_fee |-> resolve.pool_result.pool_fee,
                    token_is_token0 |->
                       DetermineTokenOrder(
                          TokenAddress(resolve.chain, resolve.token),
                          UsdcAddress(resolve.chain))]>>]
    /\ UNCHANGED <<multi, cex>>
    /\ UNCHANGED notAlone

\* pool_fee = pool_info.get('pool_fee', config.pool_fee) and
\* pool_fee_decimal = Decimal(pool_fee) / Decimal(1000000), in millionths,
\* for a price that passed the filter.
ResolveQuote ==
    /\ resolve # <<>>
    /\ resolve.pc = "cached"
    /\ resolve' = [resolve EXCEPT
                      !.pc = "quoted",
                      !.pool_fee_decimal = resolve.cache_entry[1].pool_fee]
    /\ UNCHANGED <<multi, cex>>
    /\ UNCHANGED notAlone

(***************************************************************************)
(* SimpleMultiCollector (multi_collector.py): run() installs the signal    *)
(* handler and gathers run_cex_task, run_nextdex_task and run_dex_task,    *)
(* each of which creates its runner, copies the stop flag into it and      *)
(* awaits run_continuous (cex_collector.py, nextdex_collector.py,          *)
(* dex_collector.py).                                                      *)
(***************************************************************************)
MultiTasks == {"CEX", "NextDEX", "DEX"}

\* SimpleMultiCollector(): self.running = True; no task exists yet.
MultiInit ==
    multi = [running |-> TRUE,
             pc |-> "start",
             task |-> [t \in MultiTasks |-> [running |-> FALSE, pc |-> "none"]]]

\* run(): signal.signal(SIGINT/SIGTERM, self.signal_handler), the three
\* tasks are created and gathered.
MultiRun ==
    /\ multi # <<>>
    /\ multi.pc = "start"
    /\ multi' = [multi EXCEPT
                    !.pc = "gather",
                    !.task = [t \in MultiTasks |->
                                 [running |-> FALSE, pc |-> "created"]]]
    /\ UNCHANGED <<resolve, cex>>
    /\ UNCHANGED notAlone

\* SimpleMultiCollector.signal_handler: self.running = False
MultiSignal ==
    /\ multi # <<>>
    /\ multi.pc = "gather"
    /\ multi.running
    /\ multi' = [multi EXCEPT !.running = FALSE]
    /\ UNCHANGED <<resolve, cex>>
    /\ UNCHANGED notAlone

\* run_*_task: runner = ...Runner(); runner.running = self.running, the
\* value of the flag at this moment; run_continuous is entered.
MultiTaskStart ==
    /\ multi # <<>>
    /\ \E t \in MultiTasks :
          /\ multi.task[t].pc = "created"
          /\ multi' = [multi EXCEPT
                          !.task[t] = [running |-> multi.running,
                                       pc |-> "initialize"]]
    /\ UNCHANGED <<resolve, cex>>
    /\ UNCHANGED notAlone

\* await self.collector.initialize()
MultiTaskInitialize ==
    /\ multi # <<>>
    /\ \E t \in MultiTasks :
          /\ multi.task[t].pc = "initialize"
          /\ multi' = [multi EXCEPT !.task[t].pc = "while"]
    /\ UNCHANGED <<resolve, cex>>
    /\ UNCHANGED notAlone

\* "while self.running:" on the runner's own attribute.
MultiTaskWhile ==
    /\ multi # <<>>
    /\ \E t \in MultiTasks :
          /\ multi.task[t].pc = "while"
          /\ multi' = [multi EXCEPT
                          !.task[t].pc = IF multi.task[t].running
                                         THEN "pass" ELSE "closing"]
    /\ UNCHANGED <<resolve, cex>>
    /\ UNCHANGED notAlone

\* One collection pass with save_prices_to_csv: it completes, or raises an
\* exception that "except Exception" catches before "finally".
MultiTaskPass ==
    /\ multi # <<>>
    /\ \E t \in MultiTasks :
          /\ multi.task[t].pc = "pass"
          /\ \E next \in {"after", "closing"} :
                multi' = [multi EXCEPT !.task[t].pc = next]
    /\ UNCHANGED <<resolve, cex>>
    /\ UNCHANGED notAlone

\* "if self.running: ... await asyncio.sleep(sleep_time)"
MultiTaskAfter ==
    /\ multi # <<>>
    /\ \E t \in MultiTasks :
          /\ multi.task[t].pc = "after"
          /\ multi' = [multi EXCEPT
                          !.task[t].pc = IF multi.task[t].running
                                         THEN "sleep" ELSE "while"]
    /\ UNCHANGED <<resolve, cex>>
    /\ UNCHANGED notAlone

\* The sleep is over.
MultiTaskSleep ==
    /\ multi # <<>>
    /\ \E t \in MultiTasks :
          /\ multi.task[t].pc = "sleep"
          /\ multi' = [multi EXCEPT !.task[t].pc = "while"]
    /\ UNCHANGED <<resolve, cex>>
    /\ UNCHANGED notAlone

\* "finally: await self.collector.close()"; the task is done.
MultiTaskClose ==
    /\ multi # <<>>
    /\ \E t \in MultiTasks :
          /\ multi.task[t].pc = "closing"
          /\ multi' = [multi EXCEPT !.task[t].pc = "done"]
    /\ UNCHANGED <<resolve, cex>>
    /\ UNCHANGED notAlone

\* asyncio.gather(*tasks) completes and run() returns.
MultiReturn ==
    /\ multi # <<>>
    /\ multi.pc = "gather"
    /\ \A t \in MultiTasks : multi.task[t].pc = "done"
    /\ multi' = [multi EXCEPT !.pc = "returned"]
    /\ UNCHANGED <<resolve, cex>>
    /\ UNCHANGED notAlone

(***************************************************************************)
(* The requests of get_cex_prices and the semaphores: initialize() creates *)
(* self.binance_semaphore and self.bybit_semaphore, fetch_all_bybit_prices *)
(* creates a semaphore of its own at every call.                           *)
(***************************************************************************)
\* asyncio.Semaphore(5) of initialize(), for Binance and for Bybit.
VenuePermits == 5

\* semaphore = asyncio.Semaphore(3) of fetch_all_bybit_prices.
BybitCallPermits == 3

\* The symbols fetch_all_bybit_prices asks for and the tokens
\* _fetch_binance_individual tries, in the model.
CexSymbols == {"ETHUSDT", "BTCUSDT", "LINKUSDT", "UNIUSDT"}

CexFallback == <<"WETH", "WBTC">>

\* get_cex_prices is called after initialize(): both coroutines are about
\* to start and every permit is free.
CexInit ==
    cex = [binance_semaphore |-> VenuePermits,
           bybit_semaphore |-> VenuePermits,
           semaphore |-> BybitCallPermits,
           binance |-> [pc |-> "attempt", attempt |-> 0, idx |-> 0],
           single |-> [symbol \in CexSymbols |-> "start"]]

\* fetch_all_binance_prices: "async with self.session.get(url)" of one
\* attempt; the bulk request is in flight.
CexBulkRequest ==
    /\ cex # <<>>
    /\ cex.binance.pc = "attempt"
    /\ cex' = [cex EXCEPT !.binance.pc = "bulk_request"]
    /\ UNCHANGED <<resolve, multi>>
    /\ UNCHANGED notAlone

\* The bulk request is answered: the prices are returned, or the attempt
\* failed and the next one follows, the individual requests after the last.
CexBulkResponse ==
    /\ cex # <<>>
    /\ cex.binance.pc = "bulk_request"
    /\ \/ cex' = [cex EXCEPT !.binance.pc = "done"]
       \/ cex' = [cex EXCEPT
                     !.binance =
                        IF cex.binance.attempt + 1 < max_retries
                        THEN [pc |-> "attempt",
                              attempt |-> cex.binance.attempt + 1,
                              idx |-> 0]
                        ELSE [pc |-> "individual",
                              attempt |-> cex.binance.attempt + 1,
                              idx |-> 1]]
    /\ UNCHANGED <<resolve, multi>>
    /\ UNCHANGED notAlone

\* fetch_binance_price: "async with self.binance_semaphore", then the sleep.
CexIndividualAcquire ==
    /\ cex # <<>>
    /\ cex.binance.pc = "individual"
    /\ cex.binance.idx <= Len(CexFallback)
    /\ cex.binance_semaphore > 0
    /\ cex' = [cex EXCEPT !.binance.pc = "sleep", !.binance_semaphore = @ - 1]
    /\ UNCHANGED <<resolve, multi>>
    /\ UNCHANGED notAlone

\* fetch_binance_price: the request of one symbol is in flight.
CexIndividualRequest ==
    /\ cex # <<>>
    /\ cex.binance.pc = "sleep"
    /\ cex' = [cex EXCEPT !.binance.pc = "single_request"]
    /\ UNCHANGED <<resolve, multi>>
    /\ UNCHANGED notAlone

\* fetch_binance_price returns: the permit is given back and the loop of
\* _fetch_binance_individual goes on.
CexIndividualResponse ==
    /\ cex # <<>>
    /\ cex.binance.pc = "single_request"
    /\ cex' = [cex EXCEPT !.binance.pc = "individual",
                          !.binance.idx = @ + 1,
                          !.binance_semaphore = @ + 1]
    /\ UNCHANGED <<resolve, multi>>
    /\ UNCHANGED notAlone

\* _fetch_binance_individual returns.
CexIndividualReturn ==
    /\ cex # <<>>
    /\ cex.binance.pc = "individual"
    /\ cex.binance.idx > Len(CexFallback)
    /\ cex' = [cex EXCEPT !.binance.pc = "done"]
    /\ UNCHANGED <<resolve, multi>>
    /\ UNCHANGED notAlone

\* fetch_single_bybit: "async with semaphore" on the semaphore of the call,
\* and the request of the symbol is in flight.
CexBybitRequest ==
    /\ cex # <<>>
    /\ \E symbol \in CexSymbols :
          /\ cex.single[symbol] = "start"
          /\ cex.semaphore > 0
          /\ cex' = [cex EXCEPT !.single[symbol] = "request",
                                !.semaphore = @ - 1]
    /\ UNCHANGED <<resolve, multi>>
    /\ UNCHANGED notAlone

\* fetch_single_bybit returns and gives the permit back.
CexBybitResponse ==
    /\ cex # <<>>
    /\ \E symbol \in CexSymbols :
          /\ cex.single[symbol] = "request"
          /\ cex' = [cex EXCEPT !.single[symbol] = "done",
                                !.semaphore = @ + 1]
    /\ UNCHANGED <<resolve, multi>>
    /\ UNCHANGED notAlone

(***************************************************************************)
(* One collection pass: UnifiedPriceSystem.get_all_prices with             *)
(* get_cex_prices, get_dex_prices and get_nextgen_dex_prices.              *)
(***************************************************************************)
\* The all-or-nothing variant: an empty result empties the whole list.
ExtendAllMutAllOrNothing(first, second) ==
    IF first = <<>> \/ second = <<>> THEN <<>> ELSE first \o second

\* get_cex_prices / get_nextgen_dex_prices: "for result in results: if
\* isinstance(result, list): all_..._prices.extend(result)"
ExtendAll(first, second) == first \o second

RECURSIVE GroupByTokenMutKeepLast(_, _, _)
\* The variant that assigns instead of appending: a token's list holds only
\* its latest observation.
GroupByTokenMutKeepLast(all_prices_list, i, groups) ==
    IF i > Len(all_prices_list) THEN groups
    ELSE LET price_data == all_prices_list[i]
             at == {g \in 1..Len(groups) : groups[g].token = price_data.token}
         IN  IF at = {}
             THEN GroupByTokenMutKeepLast(all_prices_list, i + 1,
                     Append(groups, [token |-> price_data.token,
                                     prices |-> <<price_data>>]))
             ELSE GroupByTokenMutKeepLast(all_prices_list, i + 1,
                     [g \in 1..Len(groups) |->
                         IF g \in at
                         THEN [groups[g] EXCEPT !.prices = <<price_data>>]
                         ELSE groups[g]])

RECURSIVE GroupByTokenMutKeepFirst(_, _, _)
\* The variant that skips a token it has already seen: a token's list holds
\* only its first observation.
GroupByTokenMutKeepFirst(all_prices_list, i, groups) ==
    IF i > Len(all_prices_list) THEN groups
    ELSE LET price_data == all_prices_list[i]
             at == {g \in 1..Len(groups) : groups[g].token = price_data.token}
         IN  IF at = {}
             THEN GroupByTokenMutKeepFirst(all_prices_list, i + 1,
                     Append(groups, [token |-> price_data.token,
                                     prices |-> <<price_data>>]))
             ELSE GroupByTokenMutKeepFirst(all_prices_list, i + 1, groups)

RECURSIVE GroupByToken(_, _, _)
\* "for price_data in all_prices_list": the dict token -> list, as the list
\* of its items in insertion order.
GroupByToken(all_prices_list, i, groups) ==
    IF i > Len(all_prices_list) THEN groups
    ELSE LET price_data == all_prices_list[i]
             at == {g \in 1..Len(groups) : groups[g].token = price_data.token}
         IN  IF at = {}
             THEN GroupByToken(all_prices_list, i + 1,
                     Append(groups, [token |-> price_data.token,
                                     prices |-> <<price_data>>]))
             ELSE GroupByToken(all_prices_list, i + 1,
                     [g \in 1..Len(groups) |->
                         IF g \in at
                         THEN [groups[g] EXCEPT !.prices = Append(@, price_data)]
                         ELSE groups[g]])

\* get_all_prices is called: the three gathers start every venue coroutine.
PassStart ==
    /\ pass_pc = "idle"
    /\ AdaptersQuiet
    /\ dex_call.pc = "idle"
    /\ pass_pc' = "gather"
    /\ binance' = BinanceCalled
    /\ bybit' = BybitCalled(tokens)
    /\ hyperliquid' = BulkCalled
    /\ dydx' = BulkCalled
    /\ dex_call' = [pc |-> "gather", ret |-> <<>>,
                    passes |-> dex_call.passes + 1]
    /\ dex' = SpawnedTasks(tokens, web3_instances)
    /\ all_results' = <<>>
    /\ UNCHANGED <<tokens, web3_instances, rpc_semaphores, pool_address_cache>>
    /\ UNCHANGED <<schedVars, runVars, anaVars, quote, merge, aloneVars>>

\* Every coroutine of the gathers has returned.
PassAllReturned ==
    /\ binance.pc = "returned" /\ bybit.pc = "returned"
    /\ hyperliquid.pc = "returned" /\ dydx.pc = "returned"
    /\ dex_call.pc = "returned"

\* all_prices_list = cex_prices + dex_prices + nextgen_prices
AllPricesList ==
    ExtendAll(binance.ret, bybit.ret) \o dex_call.ret
       \o ExtendAll(hyperliquid.ret, dydx.ret)

\* The gathers are complete: the observations are grouped and returned.
PassReturn ==
    /\ pass_pc = "gather"
    /\ PassAllReturned
    /\ pass_pc' = "returned"
    /\ all_results' = GroupByToken(AllPricesList, 1, <<>>)
    /\ UNCHANGED <<adapterVars, dexVars, schedVars, runVars, anaVars, quote,
                   merge, aloneVars>>

PassIdle == pass_pc = "idle" /\ all_results = <<>>

(***************************************************************************)
(* The grouping loop of get_all_prices on its own: the three gathers have  *)
(* returned cex_prices, dex_prices and nextgen_prices, and the loop runs   *)
(* on their concatenation, once more on the same list, and on the          *)
(* concatenation of the same lists cut in two and taken in the other       *)
(* order.                                                                  *)
(***************************************************************************)
\* What get_cex_prices can return: Binance and Bybit reference observations.
CexObservations ==
    {PriceData(s, "reference", t, Decimal("100")) :
        s \in {"binance", "bybit"}, t \in {"WETH", "WBTC"}}

\* What get_dex_prices can return: Uniswap V3 observations of a chain.
DexObservations ==
    {PriceData("uniswap_v3", "base", t, Decimal("100")) :
        t \in {"WETH", "WBTC"}}

\* What get_nextgen_dex_prices can return: perpetual observations.
NextgenObservations ==
    {PriceData(s, "perpetual", t, Decimal("100")) :
        s \in {"hyperliquid", "dydx_v4"}, t \in {"WETH", "WBTC"}}

MergeIdle == merge = <<>>

AloneIdle == resolve = <<>> /\ multi = <<>> /\ cex = <<>>

\* The three gathers have returned lists of up to MaxMerge observations.
MergeInit ==
    merge \in [cex_prices : SeqUpTo(CexObservations, MaxMerge),
               dex_prices : SeqUpTo(DexObservations, 1),
               nextgen_prices : SeqUpTo(NextgenObservations, MaxMerge),
               pc : {"gathered"},
               cut : {0},
               all_results : {<<>>},
               repeated : {<<>>},
               swapped : {<<>>}]

\* all_prices_list = cex_prices + dex_prices + nextgen_prices
MergeList == merge.cex_prices \o merge.dex_prices \o merge.nextgen_prices

\* The adapter outputs as two lists A and B: A is the first cut of the three
\* lists and B the rest.
MergeA ==
    IF merge.cut = 1 THEN merge.cex_prices
    ELSE merge.cex_prices \o merge.dex_prices

MergeB ==
    IF merge.cut = 1 THEN merge.dex_prices \o merge.nextgen_prices
    ELSE merge.nextgen_prices

\* "for price_data in all_prices_list" on the list of the pass.
MergeGroup ==
    /\ merge # <<>>
    /\ merge.pc = "gathered"
    /\ merge' = [merge EXCEPT !.pc = "grouped",
                              !.all_results = GroupByToken(MergeList, 1, <<>>)]
    /\ UNCHANGED <<schedVars, adapterVars, dexVars, passVars, runVars, anaVars,
                   quote, aloneVars>>

\* The loop once more on the same list.
MergeRepeat ==
    /\ merge # <<>>
    /\ merge.pc = "grouped"
    /\ merge' = [merge EXCEPT !.pc = "repeated",
                              !.repeated = GroupByToken(MergeList, 1, <<>>)]
    /\ UNCHANGED <<schedVars, adapterVars, dexVars, passVars, runVars, anaVars,
                   quote, aloneVars>>

\* The loop on B followed by A, for either cut of the three lists.
MergeSwap ==
    /\ merge # <<>>
    /\ merge.pc = "repeated"
    /\ \E cut \in {1, 2} :
          merge' = [merge EXCEPT
                       !.pc = "swapped",
                       !.cut = cut,
                       !.swapped =
                          LET m == [merge EXCEPT !.cut = cut]
                              a == IF cut = 1 THEN m.cex_prices
                                   ELSE m.cex_prices \o m.dex_prices
                              b == IF cut = 1
                                   THEN m.dex_prices \o m.nextgen_prices
                                   ELSE m.nextgen_prices
                          IN  GroupByToken(b \o a, 1, <<>>)]
    /\ UNCHANGED <<schedVars, adapterVars, dexVars, passVars, runVars, anaVars,
                   quote, aloneVars>>

(***************************************************************************)
(* Collector runners: CEXRunner.run_continuous (cex_collector.py),         *)
(* NextDEXRunner.run_continuous (nextdex_collector.py),                    *)
(* DEXRunner.run_continuous (dex_collector.py) and                         *)
(* DataCollectionRunner.run_continuous_collection                          *)
(* (unified_price_system.py), with the signal handler that clears          *)
(* self.running.  The handler is installed with signal.signal, so it runs  *)
(* between any two steps of the loop.                                      *)
(***************************************************************************)
Runners == {"CEXRunner", "NextDEXRunner", "DEXRunner", "DataCollectionRunner"}

\* Whether the collector's initialize() opens an aiohttp.ClientSession:
\* DEXCollector only creates Web3 instances.
HasSession(r) == r # "DEXRunner"

\* close() that leaves the session as it is.
CloseSessionMutNoop(r, sess) == sess

\* The finally clause: "await self.collector.close()" (close() does
\* "if self.session: await self.session.close()"); DEXRunner only prints.
CloseSession(r, sess) ==
    IF r # "DEXRunner" /\ sess = "open" THEN "closed" ELSE sess

RunInit ==
    /\ runner \in Runners
    /\ running = TRUE
    /\ run_pc = "init"
    /\ session = "none"
    /\ collection_count = 0
    /\ wait_left = 0
    /\ late_passes = 0

RunIdle ==
    /\ runner = "none" /\ running = FALSE /\ run_pc = "idle"
    /\ session = "none" /\ collection_count = 0 /\ wait_left = 0
    /\ late_passes = 0

\* signal_handler: self.running = False
Signal ==
    /\ run_pc \notin {"idle", "stopped"}
    /\ running
    /\ running' = FALSE
    /\ UNCHANGED <<runner, run_pc, session, collection_count, wait_left,
                   late_passes>>
    /\ UNCHANGED notRun

\* await self.collector.initialize()
RunInitialize ==
    /\ run_pc = "init"
    /\ run_pc' = "while"
    /\ session' = IF HasSession(runner) THEN "open" ELSE "none"
    /\ UNCHANGED <<runner, running, collection_count, wait_left, late_passes>>
    /\ UNCHANGED notRun

\* "while self.running:" is evaluated.
RunWhile ==
    /\ run_pc = "while"
    /\ running => collection_count < MaxRuns
    /\ run_pc' = IF running THEN "body" ELSE "finally"
    /\ UNCHANGED <<runner, running, session, collection_count, wait_left,
                   late_passes>>
    /\ UNCHANGED notRun

\* The body is entered and the collection pass is awaited; late_passes
\* counts the passes that start while self.running is already False.
RunPassStart ==
    /\ run_pc = "body"
    /\ run_pc' = "pass"
    /\ late_passes' = IF running THEN late_passes ELSE late_passes + 1
    /\ UNCHANGED <<runner, running, session, collection_count, wait_left>>
    /\ UNCHANGED notRun

\* The pass returns and its prices are saved; an exception raised while
\* saving leaves the loop through the except clause.
RunPassDone ==
    /\ run_pc = "pass"
    /\ \E outcome \in {"saved", "empty", "raised"} :
          /\ run_pc' = IF outcome = "raised" THEN "finally" ELSE "after"
          /\ collection_count' =
                IF outcome = "raised" THEN collection_count
                ELSE IF runner = "DataCollectionRunner" /\ outcome = "empty"
                THEN collection_count
                ELSE collection_count + 1
    /\ UNCHANGED <<runner, running, session, wait_left, late_passes>>
    /\ UNCHANGED notRun

\* "if self.running:" before the wait.
RunAfter ==
    /\ run_pc = "after"
    /\ IF running
       THEN /\ run_pc' = "wait"
            /\ wait_left' = IF runner = "DataCollectionRunner"
                            THEN MaxWait ELSE 1
       ELSE /\ run_pc' = "while"
            /\ UNCHANGED wait_left
    /\ UNCHANGED <<runner, running, session, collection_count, late_passes>>
    /\ UNCHANGED notRun

\* The wait: DataCollectionRunner sleeps one second at a time and breaks
\* when self.running is False; the other runners sleep once.
RunWait ==
    /\ run_pc = "wait"
    /\ IF wait_left = 0 \/ (runner = "DataCollectionRunner" /\ ~running)
       THEN run_pc' = "while" /\ wait_left' = 0
       ELSE run_pc' = "wait" /\ wait_left' = wait_left - 1
    /\ UNCHANGED <<runner, running, session, collection_count, late_passes>>
    /\ UNCHANGED notRun

\* The finally clause runs and run_continuous returns.
RunFinally ==
    /\ run_pc = "finally"
    /\ run_pc' = "stopped"
    /\ session' = CloseSession(runner, session)
    /\ UNCHANGED <<runner, running, collection_count, wait_left, late_passes>>
    /\ UNCHANGED notRun

(***************************************************************************)
(* The analyses of arbitrage_analyzer.py: load_and_analyze_arbitrage,      *)
(* analyze_leveraged_arbitrage with find_leveraged_opportunity, and        *)
(* analyze_complete_arbitrage_cycle with find_profitable_cycle.  Each      *)
(* reads the CSV file, sorts the frame by timestamp and runs one anchor    *)
(* loop per token; the model follows the rows of one token.  The file      *)
(* holds the timestamps as whole seconds (save_prices_to_csv writes        *)
(* int(price_data.timestamp)).                                             *)
(***************************************************************************)
\* One row of the frame: the columns source, chain, timestamp, price_usd.
ObservationRows(venues, timestamps, prices) ==
    {[source |-> v[1], chain |-> v[2], timestamp |-> t, price_usd |-> p] :
        v \in venues, t \in timestamps, p \in prices}

\* df.sort_values('timestamp'): the row labels in an order of non-decreasing
\* timestamp; the default sort kind is not stable.
SortByTimestamp(frame) ==
    {p \in Perms(Len(frame)) :
       \A i \in 1..(Len(frame) - 1) :
          frame[p[i]].timestamp <= frame[p[i + 1]].timestamp}

\* "spread_pct = ((max_price - min_price) / min_price) * 100" and
\* "spread_pct >= 0.05" on whole-dollar prices, where the float result
\* compares with 0.05 as the exact value does (a spread of exactly 1/2000
\* gives the float 0.05).
SpreadReported(min_price, max_price) ==
    min_price > 0 /\ (max_price - min_price) * 2000 >= min_price

RECURSIVE ScanOthers(_, _, _, _, _)
\* "for _, other_row in window_data.iterrows()" of load_and_analyze_arbitrage
\* for the anchor row idx: window_data are the labels others, k the position
\* in it, opps the list arbitrage_opportunities.  The key
\* f"{token}_{min(ts)}_{max(ts)}" of one token is the pair of the timestamps.
ScanOthers(frame, idx, others, k, opps) ==
    IF k > Len(others) THEN opps
    ELSE LET row == frame[idx]
             other_row == frame[others[k]]
             min_price == Min(row.price_usd, other_row.price_usd)
             max_price == Max(row.price_usd, other_row.price_usd)
             buy_data == IF row.price_usd < other_row.price_usd
                         THEN row ELSE other_row
             sell_data == IF row.price_usd < other_row.price_usd
                          THEN other_row ELSE row
             arb_key == <<Min(row.timestamp, other_row.timestamp),
                          Max(row.timestamp, other_row.timestamp)>>
             existing == \E n \in 1..Len(opps) : opps[n].arb_key = arb_key
         IN  IF SpreadReported(min_price, max_price) /\ ~existing
             THEN ScanOthers(frame, idx, others, k + 1,
                     Append(opps,
                        [arb_key |-> arb_key,
                         row |-> idx,
                         other_row |-> others[k],
                         timestamp |-> row.timestamp,
                         min_price |-> min_price,
                         max_price |-> max_price,
                         buy_source |-> buy_data.source,
                         buy_chain |-> buy_data.chain,
                         sell_source |-> sell_data.source,
                         sell_chain |-> sell_data.chain,
                         buy_timestamp |-> buy_data.timestamp,
                         sell_timestamp |-> sell_data.timestamp]))
             ELSE ScanOthers(frame, idx, others, k + 1, opps)

\* Two nested "for ... in x.iterrows()" loops: the pairs <<outer, inner>> in
\* the order the body meets them.
LoopPairs(outer, inner) ==
    [n \in 1..(Len(outer) * Len(inner)) |->
        <<outer[((n - 1) \div Len(inner)) + 1],
          inner[((n - 1) % Len(inner)) + 1]>>]

RECURSIVE BestOf(_, _, _, _)
\* "if final_profit > max_profit: max_profit = final_profit; best = {...}"
\* over the pairs the loops evaluate, and "return best if max_profit > 0
\* else None".
BestOf(evaluated, k, best, max_profit) ==
    IF k > Len(evaluated) THEN best
    ELSE IF evaluated[k].final_profit > max_profit
         THEN BestOf(evaluated, k + 1, Some(evaluated[k]),
                     evaluated[k].final_profit)
         ELSE BestOf(evaluated, k + 1, best, max_profit)

\* final_profit of find_leveraged_opportunity for investment = 1000,
\* DEX_FEE_RATE = 0.003, GAS_COST = 3.0, FUTURES_FEE_RATE = 0.0002,
\* FUNDING_RATE_HOURLY = 0.0001 and weekly_rebalance_cost = 8.0.  Prices are
\* whole dollars; amounts are in 1/10000 dollar and token quantities in
\* 1/10000 token, each division rounded down.
LeveragedProfit(buy_price, sell_price) ==
    LET investment == 1000 * 10000
        dex_fee == (investment * 3) \div 1000
        gas_cost == 3 * 10000
        tokens_bought == (investment - dex_fee - gas_cost) \div buy_price
        futures_position_size == tokens_bought * sell_price
        sold == (tokens_bought * (buy_price + sell_price)) \div 2
        dex_sell_proceeds == sold - ((sold * 3) \div 1000) - gas_cost
        futures_pnl == (tokens_bought * (sell_price - buy_price)) \div 2
        futures_close_fee == (futures_position_size * 2) \div 10000
        funding_cost == futures_position_size \div 10000
        cex_final_usdc ==
           investment + futures_pnl - futures_close_fee - funding_cost
        daily_rebalance_cost == (8 * 10000) \div 7
    IN  dex_sell_proceeds + cex_final_usdc - (investment * 2)
           - daily_rebalance_cost

\* find_leveraged_opportunity(window_data, token): window_data are row
\* labels of frame.  The rows of source 'bybit' are the "binance_data", the
\* rows of any source but 'binance' are the "dex_data"; a pair is evaluated
\* when the two rows are at most 300 seconds apart, dex_price <
\* binance_price and price_diff_pct >= 0.05.
FindLeveragedOpportunity(frame, window_data) ==
    LET binance_data ==
           SelectSeq(window_data, LAMBDA r : frame[r].source = "bybit")
        dex_data ==
           SelectSeq(window_data, LAMBDA r : frame[r].source # "binance")
        Considered(pair) ==
           LET binance_row == frame[pair[1]]
               dex_row == frame[pair[2]]
           IN  /\ dex_row.timestamp >= binance_row.timestamp - 300
               /\ dex_row.timestamp <= binance_row.timestamp + 300
               /\ dex_row.price_usd < binance_row.price_usd
               /\ (binance_row.price_usd - dex_row.price_usd) * 2000
                     >= dex_row.price_usd
        pairs == SelectSeq(LoopPairs(binance_data, dex_data), Considered)
        evaluated ==
           [n \in 1..Len(pairs) |->
               [binance_row |-> pairs[n][1],
                dex_row |-> pairs[n][2],
                timestamp |-> frame[pairs[n][1]].timestamp,
                buy_platform |-> frame[pairs[n][2]].chain,
                sell_platform |-> "Binance Futures",
                buy_price |-> frame[pairs[n][2]].price_usd,
                sell_price |-> frame[pairs[n][1]].price_usd,
                final_profit |-> LeveragedProfit(frame[pairs[n][2]].price_usd,
                                                 frame[pairs[n][1]].price_usd)]]
    IN  BestOf(evaluated, 1, Nothing, 0)

\* "window_mask = (timestamp >= current_time) & (timestamp <= current_time
\* + time_window)" of the two evaluators, for the anchor row idx.
ForwardWindow(frame, labels, idx, window) ==
    SelectSeq(labels,
       LAMBDA o : /\ frame[o].timestamp >= frame[idx].timestamp
                  /\ frame[o].timestamp <= frame[idx].timestamp + window)

\* TRANSFER_COSTS.get(key, 0) in 1/10000 dollar: of two entries of the dict
\* literal with the same key the later one stands.
TransferCost(from, to) ==
    CASE <<from, to>> = <<"arbitrum", "reference">> -> 30000
      [] <<from, to>> = <<"optimism", "reference">> -> 25000
      [] <<from, to>> = <<"base", "reference">> -> 20000
      [] <<from, to>> = <<"reference", "arbitrum">> -> 80000
      [] <<from, to>> = <<"reference", "optimism">> -> 75000
      [] <<from, to>> = <<"reference", "base">> -> 60000
      [] <<from, to>> \in {<<"arbitrum", "optimism">>,
                           <<"optimism", "arbitrum">>} -> 150000
      [] <<from, to>> \in {<<"arbitrum", "base">>,
                           <<"base", "arbitrum">>} -> 130000
      [] <<from, to>> \in {<<"optimism", "base">>,
                           <<"base", "optimism">>} -> 110000
      [] OTHER -> 0

\* find_profitable_cycle(window_data, token) for a token whose minimum
\* transfer amount is 0.1: window_data are row labels of frame.  Prices are
\* whole dollars; amounts are in 1/10000 dollar and token quantities in
\* 1/10000 token, each division rounded down.
FindProfitableCycle(frame, window_data) ==
    LET investment == 1000 * 10000
        gas == 2 * 10000
        FeeRate(row) == IF row.source = "binance" THEN 1 ELSE 3
        TokensBought(buy_data) ==
           LET net_investment == investment - gas
           IN  (net_investment - ((net_investment * FeeRate(buy_data)) \div 1000))
                  \div buy_data.price_usd
        Considered(pair) ==
           LET buy_data == frame[pair[1]]
               sell_data == frame[pair[2]]
           IN  /\ ~(pair[1] >= pair[2])
               /\ ~(buy_data.source = sell_data.source
                      /\ buy_data.chain = sell_data.chain)
               /\ ~(sell_data.price_usd * 100 <= buy_data.price_usd * 101)
               /\ ~(TokensBought(buy_data) < 1000)
        pairs == SelectSeq(LoopPairs(window_data, window_data), Considered)
        Evaluate(pair) ==
           LET buy_data == frame[pair[1]]
               sell_data == frame[pair[2]]
               tokens_bought == TokensBought(buy_data)
               token_transfer_cost ==
                  TransferCost(buy_data.chain, sell_data.chain)
               sold == tokens_bought * sell_data.price_usd
               usdc_received ==
                  sold - ((sold * FeeRate(sell_data)) \div 1000) - gas
               usdc_return_cost ==
                  TransferCost(sell_data.chain, buy_data.chain)
               usdc_final == usdc_received - usdc_return_cost
           IN  [buy_row |-> pair[1],
                sell_row |-> pair[2],
                timestamp |-> buy_data.timestamp,
                buy_price |-> buy_data.price_usd,
                sell_price |-> sell_data.price_usd,
                buy_source |-> buy_data.source,
                buy_chain |-> buy_data.chain,
                sell_source |-> sell_data.source,
                sell_chain |-> sell_data.chain,
                investment |-> investment,
                tokens_bought |-> tokens_bought,
                usdc_received |-> usdc_received,
                usdc_final |-> usdc_final,
                token_transfer_cost |-> token_transfer_cost,
                usdc_return_cost |-> usdc_return_cost,
                final_profit |-> usdc_final - investment,
                time_diff |-> sell_data.timestamp - buy_data.timestamp]
    IN  BestOf([n \in 1..Len(pairs) |-> Evaluate(pairs[n])], 1, Nothing, 0)

\* The frames each analysis is run on.
AnaFrames(fn) ==
    CASE fn = "scan" ->
           SeqUpTo(ObservationRows({<<"binance", "reference">>}, 0..MaxTs,
                                   {10000, 10005, 10006, 10300}), MaxObs)
      [] fn = "leveraged" ->
           SeqUpTo(ObservationRows({<<"bybit", "reference">>,
                                    <<"binance", "reference">>,
                                    <<"uniswap_v3", "arbitrum">>,
                                    <<"hyperliquid", "perpetual">>},
                                   {0, 400}, {90, 99, 100}), MaxObs)
      [] fn = "cycle" ->
           SeqUpTo(ObservationRows({<<"binance", "reference">>,
                                    <<"bybit", "reference">>,
                                    <<"uniswap_v3", "arbitrum">>,
                                    <<"uniswap_v3", "base">>},
                                   {0, 20}, {90, 100, 110}), MaxObs)

\* The analysis is called on a file.
AnaInit ==
    /\ ana_fn \in {"scan", "leveraged", "cycle"}
    /\ ana_df \in AnaFrames(ana_fn)
    /\ time_window \in (IF ana_fn = "scan" THEN {1}
                       ELSE IF ana_fn = "leveraged" THEN {30, 600} ELSE {30})
    /\ token_data = <<>>
    /\ ana_idx = 0
    /\ ana_out = <<>>
    /\ ana_pc = "start"

AnaIdle ==
    /\ ana_fn = "none" /\ ana_df = <<>> /\ time_window = 0 /\ token_data = <<>>
    /\ ana_idx = 0 /\ ana_out = <<>> /\ ana_pc = "idle"

\* df = df.sort_values('timestamp'); token_data = df[df['token'] == token]
AnaSort ==
    /\ ana_pc = "start"
    /\ token_data' \in SortByTimestamp(ana_df)
    /\ ana_idx' = 1
    /\ ana_pc' = "loop"
    /\ UNCHANGED <<ana_fn, ana_df, time_window, ana_out>>
    /\ UNCHANGED <<schedVars, adapterVars, dexVars, passVars, runVars, quote,
                   merge, aloneVars>>

\* One iteration of "for idx, row in token_data.iterrows()" of
\* load_and_analyze_arbitrage: the rows within time_window of the anchor on
\* either side, the anchor itself excluded.
ScanVisit ==
    /\ ana_fn = "scan" /\ ana_pc = "loop"
    /\ ana_idx <= Len(token_data)
    /\ LET idx == token_data[ana_idx]
           current_time == ana_df[idx].timestamp
           window_data ==
              SelectSeq(token_data,
                 LAMBDA o : /\ ana_df[o].timestamp >= current_time - time_window
                            /\ ana_df[o].timestamp <= current_time + time_window
                            /\ o # idx)
       IN  ana_out' = ScanOthers(ana_df, idx, window_data, 1, ana_out)
    /\ ana_idx' = ana_idx + 1
    /\ UNCHANGED <<ana_fn, ana_df, time_window, token_data, ana_pc>>
    /\ UNCHANGED <<schedVars, adapterVars, dexVars, passVars, runVars, quote,
                   merge, aloneVars>>

\* One iteration of "for idx, row in token_data.iterrows()" of
\* analyze_leveraged_arbitrage; ana_out records what the evaluator returned
\* for each anchor, None when it was not called or found nothing, and
\* leveraged_opportunities are the entries that are not None.
LeveragedVisit ==
    /\ ana_fn = "leveraged" /\ ana_pc = "loop"
    /\ ana_idx <= Len(token_data)
    /\ LET window_data ==
              ForwardWindow(ana_df, token_data, token_data[ana_idx],
                            time_window)
       IN  ana_out' =
              Append(ana_out,
                 IF Len(window_data) >= 2
                 THEN FindLeveragedOpportunity(ana_df, window_data)
                 ELSE Nothing)
    /\ ana_idx' = ana_idx + 1
    /\ UNCHANGED <<ana_fn, ana_df, time_window, token_data, ana_pc>>
    /\ UNCHANGED <<schedVars, adapterVars, dexVars, passVars, runVars, quote,
                   merge, aloneVars>>

\* One iteration of "for idx, row in token_data.iterrows()" of
\* analyze_complete_arbitrage_cycle; ana_out records what the evaluator
\* returned for each anchor, as for the leveraged analysis.
CycleVisit ==
    /\ ana_fn = "cycle" /\ ana_pc = "loop"
    /\ ana_idx <= Len(token_data)
    /\ LET window_data ==
              ForwardWindow(ana_df, token_data, token_data[ana_idx],
                            time_window)
       IN  ana_out' =
              Append(ana_out,
                 IF Len(window_data) >= 2
                 THEN FindProfitableCycle(ana_df, window_data)
                 ELSE Nothing)
    /\ ana_idx' = ana_idx + 1
    /\ UNCHANGED <<ana_fn, ana_df, time_window, token_data, ana_pc>>
    /\ UNCHANGED <<schedVars, adapterVars, dexVars, passVars, runVars, quote,
                   merge, aloneVars>>

\* The anchor loop is over: the analysis returns its list.
AnaReturn ==
    /\ ana_pc = "loop"
    /\ ana_idx > Len(token_data)
    /\ ana_pc' = "done"
    /\ UNCHANGED <<ana_fn, ana_df, time_window, token_data, ana_idx, ana_out>>
    /\ UNCHANGED <<schedVars, adapterVars, dexVars, passVars, runVars, quote,
                   merge, aloneVars>>

(***************************************************************************)
(* Specifications.                                                         *)
(***************************************************************************)
NextSched == SchedReturnEmpty \/ SchedSort \/ SchedVisit \/ SchedReturn

\* The trade scheduler on every frame of up to MaxCand candidates.
InitSched == SchedInit /\ AdapterIdle /\ DexIdle /\ PassIdle /\ RunIdle /\ AnaIdle /\ QuoteIdle /\ MergeIdle /\ AloneIdle

SpecSched == InitSched /\ [][NextSched]_vars

NextAdapters ==
    \/ CallBinance
    \/ BinanceBulkAttempt
    \/ BinanceFallback
    \/ BinanceIndividual
    \/ BinanceIndividualReturn
    \/ CallBybit
    \/ BybitFetchSingle
    \/ BybitReturn
    \/ CallHyperliquid
    \/ HyperliquidFetch
    \/ CallDydx
    \/ DydxFetch

\* Each venue adapter called on its own.
InitAdapters == SchedIdle /\ AdapterInit /\ DexIdle /\ PassIdle /\ RunIdle /\ AnaIdle /\ QuoteIdle /\ MergeIdle /\ AloneIdle

SpecAdapters == InitAdapters /\ [][NextAdapters]_vars

PassInit ==
    /\ tokens = <<"WETH">>
    /\ binance = BinanceIdle
    /\ bybit = BybitIdle
    /\ hyperliquid = BulkIdle
    /\ dydx = BulkIdle
    /\ DexReady({"base"}, tokens)
    /\ PassIdle

NextPass ==
    \/ PassStart
    \/ BinanceBulkAttempt
    \/ BinanceFallback
    \/ BinanceIndividual
    \/ BinanceIndividualReturn
    \/ BybitFetchSingle
    \/ BybitReturn
    \/ HyperliquidFetch
    \/ DydxFetch
    \/ DexAcquire
    \/ DexResolve
    \/ DexPrice
    \/ DexReturn
    \/ PassReturn

\* One pass of get_all_prices.
InitPass == SchedIdle /\ PassInit /\ RunIdle /\ AnaIdle /\ QuoteIdle /\ MergeIdle /\ AloneIdle

SpecPass == InitPass /\ [][NextPass]_vars

DexInit ==
    /\ tokens \in {<<"WETH">>, <<"WETH", "WBTC">>}
    /\ binance = BinanceIdle
    /\ bybit = BybitIdle
    /\ hyperliquid = BulkIdle
    /\ dydx = BulkIdle
    /\ \E w3 \in {{"base"}, {"ethereum"}, {"arbitrum"}, {"ethereum", "base"}} :
          DexReady(w3, tokens)
    /\ PassIdle

NextDex == CallDex \/ DexAcquire \/ DexResolve \/ DexPrice \/ DexReturn

\* get_dex_prices called MaxPasses times in a row.
InitDex == SchedIdle /\ DexInit /\ RunIdle /\ AnaIdle /\ QuoteIdle /\ MergeIdle /\ AloneIdle

SpecDex == InitDex /\ [][NextDex]_vars

\* get_dex_prices on one connected chain with more tokens than the chain has
\* permits.
SemInit ==
    /\ tokens = <<"WETH", "WBTC", "LINK", "UNI">>
    /\ binance = BinanceIdle
    /\ bybit = BybitIdle
    /\ hyperliquid = BulkIdle
    /\ dydx = BulkIdle
    /\ \E w3 \in {{"base"}, {"ethereum"}, {"arbitrum"}} : DexReady(w3, tokens)
    /\ PassIdle

InitSem == SchedIdle /\ SemInit /\ RunIdle /\ AnaIdle /\ QuoteIdle /\ MergeIdle /\ AloneIdle

SpecSem == InitSem /\ [][NextDex]_vars

NextAna ==
    AnaSort \/ ScanVisit \/ LeveragedVisit \/ CycleVisit \/ AnaReturn

\* Each analysis on every frame of up to MaxObs rows of one token.
InitAna ==
    /\ SchedIdle /\ AdapterIdle /\ DexIdle /\ PassIdle /\ RunIdle /\ AnaInit
    /\ QuoteIdle /\ MergeIdle /\ AloneIdle

SpecAna == InitAna /\ [][NextAna]_vars

\* The price arithmetic on every raw value mantissa * 2^(96 - shift) with
\* mantissa up to MaxRaw, for tokens of 8 and of 18 decimals.
InitQuote ==
    /\ SchedIdle /\ AdapterIdle /\ DexIdle /\ PassIdle /\ RunIdle /\ AnaIdle
    /\ MergeIdle /\ AloneIdle
    /\ quote \in [sqrt_price_x96 : [mantissa : 1..MaxRaw, shift : 0..2],
                  token_decimals : {8, 18},
                  final_price : {[b \in BOOLEAN |-> Nothing]}]

SpecQuote == InitQuote /\ [][QuotePrice]_vars

NextMerge == MergeGroup \/ MergeRepeat \/ MergeSwap

\* The grouping loop on every three adapter outputs of up to MaxMerge
\* observations.
InitMerge ==
    /\ SchedIdle /\ AdapterIdle /\ DexIdle /\ PassIdle /\ RunIdle /\ AnaIdle
    /\ QuoteIdle /\ MergeInit /\ AloneIdle

SpecMerge == InitMerge /\ [][NextMerge]_vars

NextResolve ==
    \/ ResolveQuery
    \/ ResolveExhausted
    \/ ResolveAbsent
    \/ ResolveCache
    \/ ResolveQuote

\* One resolution on a cache miss, for every way the factory can answer.
InitResolve ==
    /\ SchedIdle /\ AdapterIdle /\ DexIdle /\ PassIdle /\ RunIdle /\ AnaIdle
    /\ QuoteIdle /\ MergeIdle
    /\ ResolveInit /\ multi = <<>> /\ cex = <<>>

SpecResolve == InitResolve /\ [][NextResolve]_vars

NextCex ==
    \/ CexBulkRequest
    \/ CexBulkResponse
    \/ CexIndividualAcquire
    \/ CexIndividualRequest
    \/ CexIndividualResponse
    \/ CexIndividualReturn
    \/ CexBybitRequest
    \/ CexBybitResponse

\* One call of get_cex_prices.
InitCex ==
    /\ SchedIdle /\ AdapterIdle /\ DexIdle /\ PassIdle /\ RunIdle /\ AnaIdle
    /\ QuoteIdle /\ MergeIdle
    /\ resolve = <<>> /\ multi = <<>> /\ CexInit

SpecCex == InitCex /\ [][NextCex]_vars

\* The steps of run() and of its tasks.
MultiStep ==
    \/ MultiRun
    \/ MultiTaskStart
    \/ MultiTaskInitialize
    \/ MultiTaskWhile
    \/ MultiTaskPass
    \/ MultiTaskAfter
    \/ MultiTaskSleep
    \/ MultiTaskClose
    \/ MultiReturn

NextMulti == MultiSignal \/ MultiStep

InitMulti ==
    /\ SchedIdle /\ AdapterIdle /\ DexIdle /\ PassIdle /\ RunIdle /\ AnaIdle
    /\ QuoteIdle /\ MergeIdle
    /\ resolve = <<>> /\ MultiInit /\ cex = <<>>

\* The event loop keeps running whatever is ready; the signal may come at
\* any moment or never.
SpecMulti == InitMulti /\ [][NextMulti]_vars /\ WF_vars(MultiStep)

\* The steps of the run loop itself.
RunStep ==
    \/ RunInitialize
    \/ RunWhile
    \/ RunPassStart
    \/ RunPassDone
    \/ RunAfter
    \/ RunWait
    \/ RunFinally

NextRun == Signal \/ RunStep

\* A runner and the stop signal; the event loop keeps running the
\* coroutine, and every pass and every sleep ends.
InitRun == SchedIdle /\ AdapterIdle /\ DexIdle /\ PassIdle /\ RunInit /\ AnaIdle /\ QuoteIdle /\ MergeIdle /\ AloneIdle

SpecRun == InitRun /\ [][NextRun]_vars /\ WF_vars(RunStep)

(***************************************************************************)
(* Properties of a collection pass.                                        *)
(***************************************************************************)
\* The elements of a list.
Range(list) == {list[i] : i \in 1..Len(list)}

\* A price sign * 10^exp is strictly positive and inside [1e-10, 1e10].
InBounds(price) == price.sign > 0 /\ price.exp >= -10 /\ price.exp <= 10

\* Every observation of the grouping returned by get_all_prices.
GroupedObservations ==
    UNION {Range(all_results[g].prices) : g \in 1..Len(all_results)}

\* C4: every observation present in the token-grouped output of
\* get_all_prices, whichever adapter produced it, has a price that is
\* strictly positive and inside [1e-10, 1e10], whatever the venues returned.
C4_OutputPricesInBounds ==
    pass_pc = "returned" => \A p \in GroupedObservations : InBounds(p.price)

\* The cache entry of each key that has one is the same after the step.
CacheEntriesKept ==
    \A k \in DOMAIN pool_address_cache :
       pool_address_cache[k] # <<>> =>
          pool_address_cache'[k] = pool_address_cache[k]

\* C5: once pool_address_cache holds an entry for a key (network, token),
\* its pool address, fee tier and token-ordering flag never change in any
\* later step, under every interleaving of the tasks of a pass and across
\* successive passes.
C5_CacheWriteOnce == [][CacheEntriesKept]_vars

\* A second pass in which a task is about to consult the entry a previous
\* pass wrote for its key, while another task of the pass is under way.
C5_Witness ==
    /\ dex_call.passes = 2
    /\ \E k, o \in DOMAIN dex :
          /\ k # o
          /\ dex[k].pc = "sleep"
          /\ pool_address_cache[k] # <<>>
          /\ dex[o].pc \in {"sleep", "slot0"}

\* The fetch_uniswap_price calls of a chain that hold a permit: between
\* "async with" and its exit.
InFlight(chain) ==
    Cardinality({k \in DOMAIN dex :
                    k[1] = chain /\ dex[k].pc \in {"sleep", "slot0"}})

\* The cap the claim gives for a chain.
PermitCap(chain) ==
    CASE chain = "base" -> 1 [] chain = "ethereum" -> 2 [] OTHER -> 3

\* C11: at every moment and under every interleaving of the tasks, the
\* fetch_uniswap_price calls between acquiring and releasing a chain's
\* permit are at most the chain's cap (1 base, 2 ethereum, 3 otherwise);
\* every exit path gives the permit back, so every permit not held by a call
\* in flight is free, and the full cap is free whenever no pass is running
\* and when a later pass starts.
C11_PermitsBounded ==
    \A chain \in web3_instances :
       /\ InFlight(chain) <= PermitCap(chain)
       /\ rpc_semaphores[chain] = PermitCap(chain) - InFlight(chain)
       /\ dex_call.pc \in {"idle", "returned"} =>
             rpc_semaphores[chain] = PermitCap(chain)

\* A second pass on a chain with cap 3: three calls hold the permits and a
\* fourth waits for one, after the first pass ended with observations
\* returned and absent.
C11_Witness ==
    /\ dex_call.passes = 2
    /\ \E chain \in web3_instances :
          /\ PermitCap(chain) = 3
          /\ InFlight(chain) = 3
          /\ rpc_semaphores[chain] = 0
          /\ \E k \in DOMAIN dex : k[1] = chain /\ dex[k].pc = "start"

\* The observations the single fetches of the pass obtained.
FetchedObservations ==
    Range(binance.ret) \cup Range(hyperliquid.ret) \cup Range(dydx.ret)
       \cup UNION {Range(bybit.results_raw[i].value) :
                      i \in 1..Len(bybit.results_raw)}
       \cup UNION {Range(dex[k].ret) : k \in DOMAIN dex}

\* C6: in a pass of get_all_prices a failure in one venue's fetch or in one
\* (chain, token) on-chain fetch never prevents the pass from completing (a
\* pass that has not returned can always take a step) and never removes the
\* observations of the other fetches: the returned grouping contains every
\* observation the non-failing fetches produced.
C6_FailuresIsolated ==
    /\ pass_pc = "gather" => ENABLED NextPass
    /\ pass_pc = "returned" => FetchedObservations \subseteq GroupedObservations

\* A returned pass in which Binance exhausted its retries and its fallback,
\* Hyperliquid answered with an error and the on-chain fetch failed, while
\* Bybit and dYdX delivered their observations.
C6_Witness ==
    /\ pass_pc = "returned"
    /\ binance.fell_back /\ binance.ret = <<>>
    /\ hyperliquid.last_status = 500
    /\ \E k \in DOMAIN dex : dex[k].pc = "done" /\ dex[k].ret = Nothing
    /\ bybit.ret # <<>>
    /\ dydx.ret # <<>>
    /\ bybit.ret \o dydx.ret = Flatten([g \in 1..Len(all_results) |->
                                           all_results[g].prices])

(***************************************************************************)
(* Properties of the venue adapters.                                       *)
(***************************************************************************)
\* The observations of the well-formed records of a Binance ticker list.
BinanceWellFormed(body) ==
    Flatten([i \in 1..Len(body) |->
        IF body[i].symbol \in {BinanceSymbol(t) : t \in TokenSet(TokenList)}
              /\ body[i].price \in DecimalStrings
        THEN <<PriceData("binance", "reference",
                         BinanceSymbolToToken(body[i].symbol),
                         Decimal(body[i].price))>>
        ELSE <<>>])

\* A ticker with a missing or malformed field.
BinanceMalformed(ticker) ==
    ticker.symbol = Missing \/ ticker.price \notin DecimalStrings

\* The observations of the well-formed items of an allMids object.
HyperliquidWellFormed(body) ==
    Flatten([i \in 1..Len(body) |->
        IF body[i].symbol \in HyperliquidMapped
              /\ body[i].price \in DecimalStrings
        THEN <<PriceData("hyperliquid", "perpetual",
                         HyperliquidToken(body[i].symbol),
                         Decimal(body[i].price))>>
        ELSE <<>>])

\* The observations of the well-formed markets of a perpetualMarkets object.
DydxWellFormed(markets) ==
    Flatten([i \in 1..Len(markets) |->
        IF markets[i].market_id \in DydxMapped
              /\ markets[i].oraclePrice \in DecimalStrings
        THEN <<PriceData("dydx_v4", "perpetual",
                         DydxToken(markets[i].market_id),
                         Decimal(markets[i].oraclePrice))>>
        ELSE <<>>])

\* C7: when a bulk response (Binance ticker list, Hyperliquid allMids, dYdX
\* perpetualMarkets) holds one record with a missing or malformed field
\* together with well-formed records, the bulk fetch drops only the bad
\* record and returns the observations of all the well-formed records.
C7_BadRecordDropped ==
    /\ binance.pc = "bulk" /\ binance.attempt < max_retries =>
          \A resp \in BinanceBulkResponses :
             (/\ resp.status = 200
              /\ \E i \in 1..Len(resp.body) : BinanceMalformed(resp.body[i])
              /\ BinanceWellFormed(resp.body) # <<>>)
             => LET out == BinanceAttempt(resp, binance.attempt)
                IN  out.returns /\ out.list = BinanceWellFormed(resp.body)
    /\ hyperliquid.pc = "request" =>
          \A resp \in HyperliquidResponses :
             resp.status = 200 /\ HyperliquidWellFormed(resp.body) # <<>>
             => HyperliquidCall(resp).list = HyperliquidWellFormed(resp.body)
    /\ dydx.pc = "request" =>
          \A resp \in DydxResponses :
             (/\ resp.status = 200
              /\ resp.body.has_markets
              /\ DydxWellFormed(resp.body.markets) # <<>>)
             => DydxCall(resp).list = DydxWellFormed(resp.body.markets)

\* C8: on HTTP 429 every bulk adapter (Binance, Hyperliquid, dYdX) backs off
\* and retries the bulk request, with at most three bulk attempts per call
\* and a delay of 2^(k-1) after the k-th consecutive rate-limited attempt; a
\* fourth bulk request is never issued.
C8_BackoffAndRetry ==
    /\ binance.requests <= max_retries
    /\ hyperliquid.requests <= max_retries
    /\ dydx.requests <= max_retries
    /\ binance.pc = "bulk" /\ binance.n429 > 0 =>
          binance.last_sleep = 2 ^ (binance.n429 - 1)
    /\ hyperliquid.pc = "returned" /\ hyperliquid.last_status = 429 =>
          hyperliquid.requests = max_retries /\ hyperliquid.last_sleep = 4
    /\ dydx.pc = "returned" /\ dydx.last_status = 429 =>
          dydx.requests = max_retries /\ dydx.last_sleep = 4

\* The results of a fallback are observations of distinct attempted tokens,
\* in the order of the attempts.
FallbackResultsOf(tried, results) ==
    /\ Len(results) <= Len(tried)
    /\ \A i \in 1..Len(results) : results[i].source = "binance"
    /\ \E pos \in [1..Len(results) -> 1..Len(tried)] :
          /\ \A i \in 1..Len(results) : results[i].token = tried[pos[i]]
          /\ \A i, j \in 1..Len(results) : i < j => pos[i] < pos[j]

\* C9 as stated: when the three bulk attempts of the Binance adapter fail,
\* every configured token is attempted once through fetch_binance_price and
\* the call returns the observations of those that succeeded.
C9_FallbackEveryToken ==
    binance.pc = "returned" /\ binance.fell_back =>
       /\ binance.requests = max_retries
       /\ binance.tried = tokens
       /\ FallbackResultsOf(binance.tried, binance.ret)

\* C9, amended: when the three bulk attempts of the Binance adapter fail,
\* each of the first five configured tokens (all of them when fewer are
\* configured) is attempted once, in order, through fetch_binance_price; a
\* failure for one token does not stop the attempts for the next ones, and
\* the call returns the observations of those that succeeded.
C9_FallbackFirstFive ==
    /\ binance.pc = "individual" =>
          /\ binance.requests = max_retries
          /\ binance.tried = SubSeq(tokens, 1, binance.idx - 1)
          /\ binance.idx <= Min(Len(tokens), 5) + 1
          /\ FallbackResultsOf(binance.tried, binance.results)
    /\ binance.pc = "returned" /\ binance.fell_back =>
          /\ binance.requests = max_retries
          /\ binance.tried = SubSeq(tokens, 1, Min(Len(tokens), 5))
          /\ FallbackResultsOf(binance.tried, binance.ret)

\* A fallback over six configured tokens that returned after the fetch of
\* the first token failed and the fetch of a later token succeeded.
C9_Witness ==
    /\ binance.pc = "returned" /\ binance.fell_back
    /\ Len(tokens) = 6
    /\ Len(binance.tried) = 5
    /\ Len(binance.ret) \in 1..4
    /\ binance.ret[1].token # tokens[1]

(***************************************************************************)
(* Properties of the runners.                                              *)
(***************************************************************************)
\* C10 as stated: once the running flag of a runner has been cleared, no
\* new pass is started, and the loop terminates having closed the
\* collector's session.
C10_StopsAndCloses ==
    /\ late_passes = 0
    /\ run_pc = "stopped" => session = "closed"

\* No step aborts a pass in progress: a pass ends by returning (or by the
\* exception of its own save), never by the signal.
PassNotAborted ==
    run_pc = "pass" => run_pc' \in {"pass", "after", "finally"}

\* A pass starts with the flag cleared only when the flag was cleared
\* after the loop condition had been evaluated.
LatePassOnlyAfterCheck ==
    late_passes' > late_passes => run_pc = "body" /\ late_passes = 0

\* C10, amended: once the running flag of a runner has been cleared, the
\* pass in progress runs to completion, at most one further pass starts
\* (the one whose "while self.running" test had already succeeded), and
\* the run loop eventually terminates; CEXRunner, NextDEXRunner and
\* DataCollectionRunner then have closed the collector's session, while
\* DEXRunner, whose collector has no session, closes nothing.
C10_StopsAfterCurrentPass ==
    /\ [][PassNotAborted /\ LatePassOnlyAfterCheck]_vars
    /\ [](late_passes <= 1)
    /\ [](run_pc = "stopped" =>
            session = IF runner = "DEXRunner" THEN "none" ELSE "closed")
    /\ (run_pc # "idle" /\ ~running) ~> (run_pc = "stopped")

\* A runner stopped by the signal during a pass: the pass completed, no
\* further pass started, and the session is closed.
C10_Witness ==
    /\ run_pc = "stopped"
    /\ ~running
    /\ collection_count = 1
    /\ late_passes = 0
    /\ session = "closed"

(***************************************************************************)
(* Properties of the analyses.                                             *)
(***************************************************************************)
\* The candidates of the scan that come from the rows a and b.
CandidatesOf(a, b) ==
    {n \in 1..Len(ana_out) : {ana_out[n].row, ana_out[n].other_row} = {a, b}}

\* C12: in the simple spread scan, for every unordered pair of distinct
\* observations of the token whose timestamps differ by at most the window
\* and whose spread exceeds the threshold, exactly one candidate is emitted,
\* whichever of the two anchors the scan first (three in-window observations
\* priced 100, 100.06 and 103 give three candidates, one per pair).
C12_OneCandidatePerPair ==
    (ana_fn = "scan" /\ ana_pc = "done") =>
       \A a, b \in 1..Len(ana_df) :
          (/\ a < b
           /\ ana_df[a].timestamp - ana_df[b].timestamp <= time_window
           /\ ana_df[b].timestamp - ana_df[a].timestamp <= time_window
           /\ SpreadReported(Min(ana_df[a].price_usd, ana_df[b].price_usd),
                             Max(ana_df[a].price_usd, ana_df[b].price_usd)))
             => Cardinality(CandidatesOf(a, b)) = 1

\* The window of the k-th anchor of the two evaluators.
AnchorWindow(k) == ForwardWindow(ana_df, token_data, token_data[k], time_window)

\* The frame holds exactly one on-chain observation at 99 and one
\* observation of the derivatives venue at 100, taken in the same second.
C13_Window ==
    /\ Len(ana_df) = 2
    /\ \E d, b \in 1..2 :
          /\ ana_df[d].source = "uniswap_v3" /\ ana_df[d].price_usd = 99
          /\ ana_df[b].source = "bybit" /\ ana_df[b].price_usd = 100
          /\ ana_df[d].timestamp = ana_df[b].timestamp

\* C13: for a window of one on-chain observation at 99.00 and one
\* derivatives observation at 100.00 (investment 1000, on-chain fee 0.3%,
\* gas 3.0, derivatives fee 0.02%, funding 0.01%, weekly rebalance 8.0),
\* find_leveraged_opportunity returns one opportunity whose final_profit is
\* strictly positive and strictly below spread% * investment, and whose
\* buy_platform names the on-chain venue.
C13_HedgeExample ==
    (ana_fn = "leveraged" /\ C13_Window) =>
       \A k \in 1..Len(ana_out) :
          /\ ana_out[k] # Nothing
          /\ ana_out[k][1].final_profit > 0
          /\ ana_out[k][1].final_profit * 99 < (100 - 99) * 1000 * 10000
          /\ ana_out[k][1].buy_platform = "arbitrum"

\* C18: every opportunity the leveraged hedge evaluator returns pairs an
\* observation of an on-chain (AMM) venue as the buy leg with an observation
\* of the designated centralized-derivatives venue as the sell leg; a pair
\* whose buy side is a centralized or perpetual venue is never returned.
C18_BuyLegOnChain ==
    ana_fn = "leveraged" =>
       \A k \in 1..Len(ana_out) :
          ana_out[k] # Nothing =>
             /\ ana_df[ana_out[k][1].dex_row].source = "uniswap_v3"
             /\ ana_df[ana_out[k][1].binance_row].source = "bybit"

\* The pairs <<on-chain row, derivatives row>> of a window with the on-chain
\* price strictly below the derivatives price.
EligiblePairs(window_data) ==
    {e \in Range(window_data) \X Range(window_data) :
        /\ ana_df[e[1]].source = "uniswap_v3"
        /\ ana_df[e[2]].source = "bybit"
        /\ ana_df[e[1]].price_usd < ana_df[e[2]].price_usd}

PairProfit(e) == LeveragedProfit(ana_df[e[1]].price_usd, ana_df[e[2]].price_usd)

\* C19: for every anchor and every value of the window parameter, the
\* leveraged evaluator returns the eligible pair of the anchor's window with
\* the greatest net profit, provided that profit is positive, and returns
\* nothing exactly when no eligible pair of the window has positive profit.
C19_BestPairOfWindow ==
    ana_fn = "leveraged" =>
       \A k \in 1..Len(ana_out) :
          LET eligible == EligiblePairs(AnchorWindow(k))
              positive == {e \in eligible : PairProfit(e) > 0}
          IN  IF positive = {}
              THEN ana_out[k] = Nothing
              ELSE /\ ana_out[k] # Nothing
                   /\ <<ana_out[k][1].dex_row, ana_out[k][1].binance_row>>
                         \in eligible
                   /\ \A e \in eligible :
                         PairProfit(e) <= ana_out[k][1].final_profit

\* C14: in the full-cycle evaluator, for a buy and a sell observation on
\* two different networks, final_profit has both the outbound token-transfer
\* cost TRANSFER_COSTS[(buy_chain, sell_chain)] and the return stable-asset
\* cost TRANSFER_COSTS[(sell_chain, buy_chain)] subtracted, and a pair whose
\* profit is not positive is never returned as a cycle.
C14_BothTransfersSubtracted ==
    ana_fn = "cycle" =>
       \A k \in 1..Len(ana_out) :
          ana_out[k] # Nothing =>
             LET cycle == ana_out[k][1]
             IN  /\ cycle.token_transfer_cost =
                       TransferCost(cycle.buy_chain, cycle.sell_chain)
                 /\ cycle.usdc_return_cost =
                       TransferCost(cycle.sell_chain, cycle.buy_chain)
                 /\ cycle.final_profit =
                       cycle.usdc_received - cycle.investment
                          - cycle.token_transfer_cost - cycle.usdc_return_cost
                 /\ cycle.final_profit > 0

\* The position of a row label in a window.
PositionIn(window_data, label) ==
    CHOOSE n \in 1..Len(window_data) : window_data[n] = label

\* C20: every cycle the full-cycle evaluator returns comes from a pair
\* (i, j) of window observations in which i precedes j in the enumeration
\* of the window, the two observations differ in source or chain, and
\* sell_price is strictly greater than 1.01 times buy_price.
C20_OrderedDistinctSpread ==
    ana_fn = "cycle" =>
       \A k \in 1..Len(ana_out) :
          ana_out[k] # Nothing =>
             LET cycle == ana_out[k][1]
                 window_data == AnchorWindow(k)
             IN  /\ PositionIn(window_data, cycle.buy_row)
                       < PositionIn(window_data, cycle.sell_row)
                 /\ <<cycle.buy_source, cycle.buy_chain>>
                       # <<cycle.sell_source, cycle.sell_chain>>
                 /\ cycle.sell_price * 100 > cycle.buy_price * 101

(***************************************************************************)
(* Properties of the price arithmetic.                                     *)
(***************************************************************************)
\* Both orderings are computed on the same raw value.
BothQuoted == quote # <<>> /\ \A b \in BOOLEAN : quote.final_price[b] # Nothing

\* The product of the two prices is coef * 10^(-places) * 10^(2d).
QuoteProduct ==
    LET p0 == quote.final_price[TRUE][1]
        p1 == quote.final_price[FALSE][1]
        d == quote.token_decimals - usdc_decimals
    IN  [coef |-> p0.coef * p1.coef, places |-> 2 * d - p0.exp - p1.exp]

\* C15 as stated: for every non-zero raw sqrtPriceX96 and a fixed decimal
\* pair, the price derived with the token in the lower-address slot and the
\* price derived with the token in the higher-address slot are reciprocal up
\* to the scaling factor: their product equals 10^(2d).
C15_ExactReciprocal ==
    BothQuoted =>
       /\ QuoteProduct.places >= 0
       /\ QuoteProduct.coef = 10 ^ QuoteProduct.places

\* C15 amended: the product of the two prices equals 10^(2d) up to the
\* rounding of the reciprocal, a relative difference of at most 5 units in
\* the digit after the last one the decimal context keeps.
C15_ReciprocalUpToRounding ==
    BothQuoted =>
       /\ QuoteProduct.places >= 0
       /\ LET one == 10 ^ QuoteProduct.places
              diff == IF QuoteProduct.coef >= one
                      THEN QuoteProduct.coef - one
                      ELSE one - QuoteProduct.coef
          IN  diff <= (5 * one) \div (10 ^ DecimalPrec)

\* Both prices are computed on a raw value whose ratio has no finite
\* reciprocal (sqrtPriceX96 = 3 * 2^96, ratio 9), and the product is not
\* 10^(2d).
C15_Witness ==
    /\ BothQuoted
    /\ quote.sqrt_price_x96 = [mantissa |-> 3, shift |-> 0]
    /\ QuoteProduct.coef # 10 ^ QuoteProduct.places

(***************************************************************************)
(* Properties of the grouping step.                                        *)
(***************************************************************************)
\* The tokens of the observations of a list.
TokensOf(list) == {list[i].token : i \in 1..Len(list)}

\* The keys of a grouping.
KeysOf(groups) == {groups[g].token : g \in 1..Len(groups)}

\* How many times an observation occurs in a list.
Occurrences(list, p) == Cardinality({i \in 1..Len(list) : list[i] = p})

\* The observations of a token in a grouping, as a list (empty when the
\* token is not a key).
PricesOf(groups, token) ==
    IF token \in KeysOf(groups)
    THEN groups[CHOOSE g \in 1..Len(groups) : groups[g].token = token].prices
    ELSE <<>>

\* C16: the grouping step of get_all_prices is a pure merge: every
\* observation returned by the three adapter families appears exactly once
\* in the output, unmodified, under the key equal to its token symbol; none
\* is dropped or added; no key maps to an empty list; and each token's list
\* keeps the arrival order of the concatenation centralized, on-chain,
\* perpetual.
C16_PureMerge ==
    (merge # <<>> /\ merge.pc # "gathered") =>
       LET groups == merge.all_results
       IN  /\ KeysOf(groups) = TokensOf(MergeList)
           /\ \A g, h \in 1..Len(groups) :
                 groups[g].token = groups[h].token => g = h
           /\ \A g \in 1..Len(groups) :
                 /\ groups[g].prices # <<>>
                 /\ groups[g].prices =
                       SelectSeq(MergeList,
                                 LAMBDA p : p.token = groups[g].token)

\* The three families all returned observations, of two tokens, and a
\* token's observations are not contiguous in the concatenation.
C16_Witness ==
    /\ merge # <<>> /\ merge.pc = "grouped"
    /\ merge.cex_prices # <<>> /\ merge.dex_prices # <<>>
    /\ merge.nextgen_prices # <<>>
    /\ Len(merge.all_results) = 2
    /\ \E i, j, k \in 1..Len(MergeList) :
          /\ i < j /\ j < k
          /\ MergeList[i].token = MergeList[k].token
          /\ MergeList[j].token # MergeList[i].token

\* Two groupings have the same keys and, under every key, the same
\* observations the same number of times.
SameGrouping(first, second) ==
    /\ KeysOf(first) = KeysOf(second)
    /\ \A token \in KeysOf(first) :
          \A p \in Range(PricesOf(first, token))
                     \cup Range(PricesOf(second, token)) :
             Occurrences(PricesOf(first, token), p)
                = Occurrences(PricesOf(second, token), p)

\* C17: for any two disjoint adapter-output lists A and B, grouping A
\* followed by B and grouping B followed by A yield the same set of token
\* keys and, for every token, the same observations; and repeating the
\* grouping on the same input yields the identical result.
C17_OrderAndRepeat ==
    /\ (merge # <<>> /\ merge.pc \in {"repeated", "swapped"}) =>
          merge.repeated = merge.all_results
    /\ (merge # <<>> /\ merge.pc = "swapped") =>
          /\ MergeList = MergeA \o MergeB
          /\ SameGrouping(merge.all_results, merge.swapped)

\* A and B are both non-empty and share a token, and the grouping of B
\* followed by A lists that token's observations in another order.
C17_Witness ==
    /\ merge # <<>> /\ merge.pc = "swapped"
    /\ MergeA # <<>> /\ MergeB # <<>>
    /\ TokensOf(MergeA) \cap TokensOf(MergeB) # {}
    /\ merge.swapped # merge.all_results

(***************************************************************************)
(* Properties of the costs of the full-cycle evaluator.                    *)
(***************************************************************************)
\* The fee rate, in thousandths, of a leg on a venue: the centralized
\* venues are the ones logged with chain 'reference'.
VenueFeeRate(chain) == IF chain = "reference" THEN 1 ELSE 3

\* The cycles the full-cycle evaluator returned.
ReturnedCycles ==
    IF ana_fn = "cycle"
    THEN {ana_out[k][1] : k \in {n \in 1..Len(ana_out) : ana_out[n] # Nothing}}
    ELSE {}

\* C21: in the full-cycle evaluator each leg executed on a centralized venue
\* is charged 0.1% and each leg executed on an on-chain venue 0.3%, for
\* every venue that appears in the observation log.
C21_FeeRateByVenueKind ==
    \A cycle \in ReturnedCycles :
       LET net_investment == cycle.investment - 2 * 10000
           sold == cycle.tokens_bought * cycle.sell_price
       IN  /\ cycle.tokens_bought =
                 (net_investment
                     - ((net_investment * VenueFeeRate(cycle.buy_chain))
                           \div 1000)) \div cycle.buy_price
           /\ cycle.usdc_received =
                 sold - ((sold * VenueFeeRate(cycle.sell_chain)) \div 1000)
                    - 2 * 10000

\* The networks and the centralized destination of the transfer-cost table.
TableNetworks == {"arbitrum", "optimism", "base"}

\* The pair of chains is a key of the transfer-cost table.
InTransferTable(from, to) ==
    /\ from # to
    /\ {from, to} \subseteq TableNetworks \cup {"reference"}

\* C22: for every cycle the full-cycle evaluator evaluates between two
\* venues that have entries in the transfer-cost table, the cost of
\* returning the stable asset, looked up as (sell_chain, buy_chain), is
\* strictly greater than the cost of sending the token out, looked up as
\* (buy_chain, sell_chain); and every network-to-network leg costs more than
\* every network-to-centralized leg.
C22_ReturnCostsMore ==
    /\ \A cycle \in ReturnedCycles :
          InTransferTable(cycle.buy_chain, cycle.sell_chain) =>
             cycle.usdc_return_cost > cycle.token_transfer_cost
    /\ \A from, to, other \in TableNetworks :
          from # to =>
             TransferCost(from, to) > TransferCost(other, "reference")

\* C29: for every cycle returned by the full-cycle evaluator, on any
\* observation log, including one whose rows are not stored in timestamp
\* order, the buy observation is not later than the sell observation: the
\* reported time_diff = sell_ts - buy_ts is never negative.
C29_BuyNotAfterSell ==
    \A cycle \in ReturnedCycles : cycle.time_diff >= 0

(***************************************************************************)
(* Properties of the spread scan.                                          *)
(***************************************************************************)
\* The observation buy is the buy side and sell the sell side of opp.
SidesOf(opp, buy, sell) ==
    /\ ana_df[buy].source = opp.buy_source
    /\ ana_df[buy].chain = opp.buy_chain
    /\ ana_df[buy].timestamp = opp.buy_timestamp
    /\ ana_df[sell].source = opp.sell_source
    /\ ana_df[sell].chain = opp.sell_chain
    /\ ana_df[sell].timestamp = opp.sell_timestamp
    /\ ana_df[buy].price_usd < ana_df[sell].price_usd

\* C25: the simple spread scan emits a candidate for a pair only when
\* spread_pct = (max - min) / min * 100 strictly exceeds the threshold 0.05:
\* a pair whose spread is exactly equal to the threshold produces no
\* candidate; and in every emitted candidate the buy side is the
\* observation with the strictly lower price and the sell side the one with
\* the higher price.
C25_StrictThresholdLowBuys ==
    ana_fn = "scan" =>
       \A n \in 1..Len(ana_out) :
          LET opp == ana_out[n]
          IN  /\ (opp.max_price - opp.min_price) * 2000 > opp.min_price
              /\ \/ SidesOf(opp, opp.row, opp.other_row)
                 \/ SidesOf(opp, opp.other_row, opp.row)

(***************************************************************************)
(* Properties of the on-chain price and of pool resolution.                *)
(***************************************************************************)
\* The task of key k goes from the slot0 request to its return.
PriceStep(k) == dex[k].pc = "slot0" /\ dex'[k].pc = "done"

\* The price step returns an observation in bounds or None, and leaves the
\* pool cache as it was.
PriceStepFiltered ==
    \A k \in DOMAIN dex :
       PriceStep(k) =>
          /\ \/ dex'[k].ret = Nothing
             \/ InBounds(dex'[k].ret[1].price)
          /\ pool_address_cache' = pool_address_cache

\* C26: for every raw pool state value read from slot0, including 0, and
\* for either token ordering, fetch_uniswap_price either returns an
\* observation whose price lies in [1e-10, 1e10] or returns absent; it never
\* raises to its caller, and an out-of-bounds or undefined derived price
\* yields absent without altering the pool cache.
C26_PriceFilteredCacheKept == [][PriceStepFiltered]_vars

\* A task whose pool has the token in the higher-address slot returned
\* absent after the price step, and the cache entry of its key is in place.
C26_Witness ==
    \E k \in DOMAIN dex :
       /\ dex[k].pc = "done"
       /\ dex[k].ret = Nothing
       /\ pool_address_cache[k] # <<>>
       /\ ~pool_address_cache[k][1].token_is_token0

\* The task of key k returns from the pool resolution without a pool.
ResolutionFails(k) == dex[k].pc = "sleep" /\ dex'[k].pc = "done"

\* A failed resolution returns None and leaves the whole cache as it was;
\* a task goes on to slot0 only with an entry for its key, and an entry
\* always holds the address of a pool.
FailedResolutionNotCached ==
    \A k \in DOMAIN dex :
       /\ ResolutionFails(k) =>
             /\ dex'[k].ret = Nothing
             /\ pool_address_cache' = pool_address_cache
             /\ pool_address_cache[k] = <<>>
       /\ (dex[k].pc = "sleep" /\ dex'[k].pc = "slot0") =>
             /\ pool_address_cache'[k] # <<>>
             /\ pool_address_cache'[k][1].pool_address # <<>>
             /\ \A o \in DOMAIN pool_address_cache :
                   o # k => pool_address_cache'[o] = pool_address_cache[o]

\* C27: when pool resolution for a (network, token) pair finds no pool in
\* any fee tier, or the factory call fails, fetch_uniswap_price returns
\* absent for that pass, writes no cache entry for that key, leaves the
\* entries of all other keys unchanged, and the resolution is attempted
\* again on the next pass.
C27_FailedResolutionRetried == [][FailedResolutionNotCached]_vars

\* In a second pass the task of a key whose resolution failed in the first
\* pass is about to resolve again, and another key has its entry.
C27_Witness ==
    /\ dex_call.passes = 2
    /\ \E k, o \in DOMAIN dex :
          /\ k # o
          /\ dex[k].pc = "sleep"
          /\ pool_address_cache[k] = <<>>
          /\ pool_address_cache[o] # <<>>

\* C23: pool resolution queries the factory for fee tiers in the fixed
\* order 3000, 500, 10000, 100 and returns the pool of the first tier whose
\* lookup yields a non-null address, together with that tier; tiers after
\* the winning one are not queried, and the fee stored in the cache entry
\* and used for the synthetic bid/ask is the winning tier.
C23_FirstTierWins ==
    resolve # <<>> =>
       LET order == <<3000, 500, 10000, 100>>
           AnswerFor(n) ==
              resolve.answer[CHOOSE i \in 1..Len(fee_levels) :
                                fee_levels[i] = order[n]]
           nonzero == {n \in 1..4 : AnswerFor(n) # "zero"}
           first == CHOOSE n \in nonzero : \A m \in nonzero : n <= m
           r == resolve.pool_result
       IN  /\ Len(resolve.queried) <= 4
           /\ resolve.queried = SubSeq(order, 1, Len(resolve.queried))
           /\ resolve.pc # "loop" =>
                 /\ r.found <=> (nonzero # {} /\ AnswerFor(first) = "pool")
                 /\ r.found =>
                       /\ r.pool_fee = order[first]
                       /\ r.pool_address =
                             PoolAddress(resolve.chain, resolve.token,
                                         order[first])
                       /\ Len(resolve.queried) = first
                 /\ r = GetPoolAddress(resolve.chain, resolve.token,
                                       resolve.answer)
           /\ resolve.pc \in {"cached", "quoted"} =>
                 /\ resolve.cache_entry[1].pool_fee = order[first]
                 /\ resolve.cache_entry[1].pool_address = r.pool_address
           /\ resolve.pc = "quoted" =>
                 resolve.pool_fee_decimal = order[first]

\* The 3000 tier has no pool, the 500 and the 10000 tiers both have one:
\* two tiers were queried and the bid and ask use the fee 500.
C23_Witness ==
    /\ resolve # <<>>
    /\ resolve.pc = "quoted"
    /\ resolve.answer[1] = "zero"
    /\ resolve.answer[2] = "pool"
    /\ resolve.answer[3] = "pool"
    /\ resolve.queried = <<3000, 500>>
    /\ resolve.pool_fee_decimal = 500

(***************************************************************************)
(* Properties of the single-process collector.                             *)
(***************************************************************************)
\* The stop signal handler has run.
MultiStopped == multi # <<>> /\ ~multi.running

\* A task goes from the test of its loop into a collection pass.
StartsPass(t) == multi.task[t].pc = "while" /\ multi'.task[t].pc = "pass"

\* No task starts a pass once the handler has run.
StoppedStartsNoPass == MultiStopped => \A t \in MultiTasks : ~StartsPass(t)

\* C28: in single-process mode the stop flag is shared with the three
\* collector runners: after the stop signal handler has run, each of the
\* CEX, NextDEX and DEX collector tasks stops starting new collection passes
\* and terminates, so that SimpleMultiCollector.run eventually returns.
C28_StopHaltsTasks ==
    /\ [][StoppedStartsNoPass]_vars
    /\ MultiStopped ~> (multi.pc = "returned")

(***************************************************************************)
(* Properties of the requests to the centralized venues.                   *)
(***************************************************************************)
\* The requests to Binance and to Bybit that are in flight.
BinanceInFlight ==
    IF cex.binance.pc \in {"bulk_request", "single_request"} THEN 1 ELSE 0

BybitInFlight ==
    Cardinality({symbol \in CexSymbols : cex.single[symbol] = "request"})

\* C24: every network request an adapter issues to a venue, the Binance
\* bulk ticker request and the per-symbol Bybit requests included, is issued
\* while the issuing task holds a permit of that venue's concurrency
\* controller, so that no venue ever has more requests in flight than its
\* configured cap.
C24_RequestsHoldVenuePermit ==
    cex # <<>> =>
       /\ BinanceInFlight <= VenuePermits - cex.binance_semaphore
       /\ BybitInFlight <= VenuePermits - cex.bybit_semaphore
       /\ BinanceInFlight <= VenuePermits
       /\ BybitInFlight <= VenuePermits

====
